---- MODULE Spec2Model ----
(***************************************************************************)
(* Model of the technology resolver (core/technology.py) and of the cutout *)
(* fetch planner and validation reporter (service/runner.py) of            *)
(* atlite-profiles-api.                                                    *)
(*                                                                         *)
(* The specifications of the module share its variables:                 *)
(*   SpecResolve  - _resolve_technology_file as called by inspect_turbine  *)
(*                  and inspect_solar_technology, over a changing disk and *)
(*                  library catalog;                                       *)
(*   SpecCompare  - the pure diff _compare_cutout_to_config over bounded   *)
(*                  declared / observed metadata;                          *)
(*   Spec         - one invocation of fetch_cutouts, stepped statement by  *)
(*                  statement over a file system and a remote host;        *)
(*   SpecRace     - two invocations of fetch_cutouts interleaved on one    *)
(*                  local destination;                                     *)
(*   SpecClassify - _is_remote_target over bounded target strings;         *)
(*   SpecTurbine  - infer_power_scale, to_curve_points, rated_power_mw     *)
(*                  over bounded turbine definitions;                      *)
(*   SpecSolar    - SolarTechnologyConfig.from_payload over bounded solar  *)
(*                  payloads;                                              *)
(*   SpecWind     - WindTurbineConfig construction and to_atlite_turbine   *)
(*                  over bounded keyword arguments;                        *)
(*   SpecTime     - _infer_time_value and _normalize_time over bounded     *)
(*                  observed ranges and declared times;                    *)
(*   SpecApi      - the catalog snapshot of the API and the two inspection *)
(*                  routes over a changing disk and library;               *)
(*   SpecRerun    - fetch_cutouts followed by a second invocation with the *)
(*                  same configuration.                                    *)
(***************************************************************************)
EXTENDS Integers, Sequences, FiniteSets, TLC

VARIABLES
    \* ---- technology resolver ----
    localYaml,      \* set of <<local_dir, technology>>: <local_dir>/<technology>.yaml exists
    atliteListed,   \* set of <<local_dir, technology>> the library catalog has a key for
    atliteOnDisk,   \* set of <<local_dir, technology>> whose catalog path exists on disk
    fetcherRaises,  \* whether atlite_paths_fetcher() raises when called
    resolveOut,     \* outcome of the last _resolve_technology_file call, or NoCall
    \* ---- cutout diff ----
    cmpEntry,       \* declared side handed to _compare_cutout_to_config
    cmpObserved,    \* observed metadata returned by inspect_cutout_metadata
    cmpResult,      \* result of _compare_cutout_to_config, or NoCall
    \* ---- fetch_cutouts ----
    config,         \* cutouts of the loaded fetch configuration
    force_refresh,  \* argument
    name,           \* argument (NoName when None)
    report_validate_existing, \* argument
    entries,        \* the selected entries (indices into config), in order
    pc,             \* position of the invocation
    idx,            \* index in entries of the entry being processed
    exists,         \* result of the existence probe of the current entry
    fs,             \* local file system: path string -> content or Absent
    remote,         \* remote host: destination string -> content or Absent
    remoteDirs,     \* set of <<host, remote_dir>> created by mkdir -p
    staging,        \* content of the staged file in the temporary directory
    fetched,        \* list of reported fetched items
    skipped,        \* list of reported skipped items
    validation_report, \* CutoutValidationReport or NoReport
    raised,         \* the exception that left fetch_cutouts, or NoError
    response,       \* the CutoutFetchResponse returned, or NoResponse
    log,            \* history: external calls and bookkeeping, in order
    \* ---- two concurrent fetch_cutouts ----
    dest,           \* the file at the shared local destination
    inv,            \* invocation -> its arguments, locals and position
    \* ---- _is_remote_target ----
    clsTarget,      \* the target string (sequence of characters)
    clsResult,      \* result of _is_remote_target, or NoCall
    \* ---- turbine definitions ----
    turbinePayload, \* the parsed definition file
    turbineOut,     \* results of the three functions, or NoCall
    \* ---- solar payloads ----
    solarPayload,   \* the parsed definition file
    solarDefault,   \* default_name handed to from_payload
    solarOut,       \* the config built (or the validation error), or NoCall
    \* ---- wind turbine configs ----
    windInput,      \* the keyword arguments handed to WindTurbineConfig
    windOut,        \* the config built and its projection, or NoCall
    \* ---- time normalization ----
    timeStart,      \* first timestamp of the observed range
    timeEnd,        \* last timestamp of the observed range
    timeDeclared,   \* cutout.time of the configuration entry
    timeOut,        \* inferred and normalized times and the verdict, or NoCall
    \* ---- API catalog ----
    listingRaises,  \* local dirs (kinds) whose library listing raises
    ncFiles,        \* cutout files the configured sources hold
    snapshot,       \* app.state.catalog, the snapshot last applied
    apiOut,         \* the last inspection response of the API, or NoCall
    \* ---- repeated fetch_cutouts ----
    run,            \* 1 during the first invocation, 2 during the one that follows
    before          \* files and selection as the first invocation left them

rvars == <<localYaml, atliteListed, atliteOnDisk, fetcherRaises, resolveOut>>
cvars == <<cmpEntry, cmpObserved, cmpResult>>
fvars == <<config, force_refresh, name, report_validate_existing, entries, pc,
           idx, exists, fs, remote, remoteDirs, staging, fetched, skipped,
           validation_report, raised, response, log>>
xvars == <<dest, inv>>
tvars == <<clsTarget, clsResult>>
pvars == <<turbinePayload, turbineOut>>
svars == <<solarPayload, solarDefault, solarOut>>
\* the variables outside the resolver, the diff and the single invocation
wvars == <<windInput, windOut>>
mvars == <<timeStart, timeEnd, timeDeclared, timeOut>>
avars == <<listingRaises, ncFiles, snapshot, apiOut>>
uvars == <<run, before>>
nvars == <<wvars, mvars, avars, uvars>>
ovars == <<xvars, tvars, pvars, svars, nvars>>
vars == <<rvars, cvars, fvars, ovars>>

NoCall == [called |-> FALSE]

(***************************************************************************)
(* Technology resolver: core/technology.py                                 *)
(***************************************************************************)

\* local_dir arguments of inspect_turbine / inspect_solar_technology
WindDir == "config/wind"
SolarDir == "config/solar"
LocalDirs == {WindDir, SolarDir}

\* technology identifiers looked up
Technologies == {"X", "Y"}

\* the definition files that may exist: two turbines, one solar technology
\* that shares its identifier with a turbine
TechFiles == {<<WindDir, "X">>, <<WindDir, "Y">>, <<SolarDir, "X">>}

\* not_found_label arguments
TurbineLabel == "Turbine"
SolarLabel == "Solar technology"

\* Path(local_dir) / f"{technology}.yaml"
LocalTechFile(local_dir, technology) == local_dir \o "/" \o technology \o ".yaml"

\* the path the library catalog maps a technology to
AtliteTechFile(local_dir, technology) ==
    "atlite/resources/" \o local_dir \o "/" \o technology \o ".yaml"

\* try: atlite_paths_fetcher() except Exception: {}   -- the keys of the result
FetchAtliteFiles(local_dir) ==
    IF fetcherRaises THEN {}
    ELSE {t \in Technologies : <<local_dir, t>> \in atliteListed}

\* the library lookup of _resolve_technology_file, after the local check failed
ResolveFromAtlite(technology, local_dir, not_found_label) ==
    LET atlite_files == FetchAtliteFiles(local_dir)
    IN IF technology \in atlite_files /\ <<local_dir, technology>> \in atliteOnDisk
       THEN [called |-> TRUE, raised |-> FALSE, kind |-> "atlite",
             path |-> AtliteTechFile(local_dir, technology),
             label |-> "", ident |-> "", consulted |-> TRUE]
       ELSE [called |-> TRUE, raised |-> TRUE, kind |-> "ValueError",
             path |-> "",
             label |-> not_found_label, ident |-> technology, consulted |-> TRUE]

\* mutant: the library catalog is asked first and wins over the local file
ResolveAtliteFirst(technology, local_dir, not_found_label) ==
    LET lib == ResolveFromAtlite(technology, local_dir, not_found_label)
    IN IF ~lib.raised THEN lib
       ELSE IF <<local_dir, technology>> \in localYaml
       THEN [called |-> TRUE, raised |-> FALSE, kind |-> "custom",
             path |-> LocalTechFile(local_dir, technology),
             label |-> "", ident |-> "", consulted |-> TRUE]
       ELSE lib

\* mutant: a failing catalog fetcher is not caught
ResolvePropagating(technology, local_dir, not_found_label) ==
    IF <<local_dir, technology>> \in localYaml
    THEN [called |-> TRUE, raised |-> FALSE, kind |-> "custom",
          path |-> LocalTechFile(local_dir, technology),
          label |-> "", ident |-> "", consulted |-> FALSE]
    ELSE IF fetcherRaises
    THEN [called |-> TRUE, raised |-> TRUE, kind |-> "FetcherError",
          path |-> "", label |-> "", ident |-> "", consulted |-> TRUE]
    ELSE ResolveFromAtlite(technology, local_dir, not_found_label)

\* _resolve_technology_file(technology, local_dir=..., atlite_paths_fetcher=...,
\*                          not_found_label=...)
ResolveTechnologyFile(technology, local_dir, not_found_label) ==
    IF <<local_dir, technology>> \in localYaml
    THEN [called |-> TRUE, raised |-> FALSE, kind |-> "custom",
          path |-> LocalTechFile(local_dir, technology),
          label |-> "", ident |-> "", consulted |-> FALSE]
    ELSE ResolveFromAtlite(technology, local_dir, not_found_label)

\* history kept with an outcome: what the disk and the catalog held at the lookup
Lookup(technology, local_dir, not_found_label) ==
    [technology |-> technology, local_dir |-> local_dir,
     not_found_label |-> not_found_label,
     localAtCall |-> <<local_dir, technology>> \in localYaml,
     listedAtCall |-> <<local_dir, technology>> \in atliteListed,
     onDiskAtCall |-> <<local_dir, technology>> \in atliteOnDisk,
     fetcherRaisedAtCall |-> fetcherRaises]

\* inspect_turbine: the resolution it starts with
InspectTurbine(turbine_model) ==
    /\ <<WindDir, turbine_model>> \in TechFiles
    /\ resolveOut' = [out |-> ResolveTechnologyFile(turbine_model, WindDir, TurbineLabel),
                      at |-> Lookup(turbine_model, WindDir, TurbineLabel),
                      called |-> TRUE]
    /\ UNCHANGED <<localYaml, atliteListed, atliteOnDisk, fetcherRaises>>
    /\ UNCHANGED <<cvars, fvars, ovars>>

\* inspect_solar_technology: the resolution it starts with
InspectSolarTechnology(technology) ==
    /\ <<SolarDir, technology>> \in TechFiles
    /\ resolveOut' = [out |-> ResolveTechnologyFile(technology, SolarDir, SolarLabel),
                      at |-> Lookup(technology, SolarDir, SolarLabel),
                      called |-> TRUE]
    /\ UNCHANGED <<localYaml, atliteListed, atliteOnDisk, fetcherRaises>>
    /\ UNCHANGED <<cvars, fvars, ovars>>

\* environment: a user adds or removes <local_dir>/<technology>.yaml
ToggleLocalYaml(local_dir, technology) ==
    /\ <<local_dir, technology>> \in TechFiles
    /\ localYaml' = IF <<local_dir, technology>> \in localYaml
                    THEN localYaml \ {<<local_dir, technology>>}
                    ELSE localYaml \cup {<<local_dir, technology>>}
    /\ UNCHANGED <<atliteListed, atliteOnDisk, fetcherRaises, resolveOut>>
    /\ UNCHANGED <<cvars, fvars, ovars>>

\* environment: the library gains a catalog key (its file not yet on disk), or
\* loses one together with its file
ToggleAtliteListed(local_dir, technology) ==
    /\ <<local_dir, technology>> \in TechFiles
    /\ IF <<local_dir, technology>> \in atliteListed
       THEN /\ atliteListed' = atliteListed \ {<<local_dir, technology>>}
            /\ atliteOnDisk' = atliteOnDisk \ {<<local_dir, technology>>}
       ELSE /\ atliteListed' = atliteListed \cup {<<local_dir, technology>>}
            /\ UNCHANGED atliteOnDisk
    /\ UNCHANGED <<localYaml, fetcherRaises, resolveOut>>
    /\ UNCHANGED <<cvars, fvars, ovars>>

\* environment: the file a catalog key points at appears or disappears
ToggleAtliteOnDisk(local_dir, technology) ==
    /\ <<local_dir, technology>> \in atliteListed
    /\ atliteOnDisk' = IF <<local_dir, technology>> \in atliteOnDisk
                       THEN atliteOnDisk \ {<<local_dir, technology>>}
                       ELSE atliteOnDisk \cup {<<local_dir, technology>>}
    /\ UNCHANGED <<localYaml, atliteListed, fetcherRaises, resolveOut>>
    /\ UNCHANGED <<cvars, fvars, ovars>>

\* environment: the library becomes unavailable (import fails) or available
ToggleFetcher ==
    /\ fetcherRaises' = ~fetcherRaises
    /\ UNCHANGED <<localYaml, atliteListed, atliteOnDisk, resolveOut>>
    /\ UNCHANGED <<cvars, fvars, ovars>>

(***************************************************************************)
(* Cutout validation diff: service/runner.py                               *)
(*                                                                         *)
(* Numbers are floats counted in units of 1e-7, so that the tolerance 1e-6 *)
(* is 10 units.  A YAML list item is [num |-> is it an int or float,       *)
(* v |-> its value]; a YAML value that may be a list is                    *)
(* [isList |-> .., items |-> ..] (a scalar is its one item).               *)
(***************************************************************************)

\* tolerance: float = 1e-6, in units of 1e-7
Tolerance == 10

Num(v) == [num |-> TRUE, v |-> v]
NotNum(v) == [num |-> FALSE, v |-> v]
List(items) == [isList |-> TRUE, items |-> items]
Scalar(item) == [isList |-> FALSE, items |-> <<item>>]

Abs(a) == IF a < 0 THEN -a ELSE a

\* "|".join(str(item) for item in value) if isinstance(value, list) else str(value)
RECURSIVE JoinBar(_)
JoinBar(items) ==
    IF Len(items) = 0 THEN ""
    ELSE IF Len(items) = 1 THEN items[1]
    ELSE items[1] \o "|" \o JoinBar(Tail(items))

NormalizeTime(value) ==
    IF value.isList THEN JoinBar(value.items) ELSE value.items[1]

\* _to_float_list: [] unless value is a list of ints/floats
ToFloatList(value) ==
    IF ~value.isList THEN <<>>
    ELSE IF \E i \in 1..Len(value.items) : ~value.items[i].num THEN <<>>
    ELSE [i \in 1..Len(value.items) |-> value.items[i].v]

\* _close_enough(a, b, tolerance=1e-6)
CloseEnough(a, b) == Abs(a - b) <= Tolerance

\* the order of Python's sorted() on the feature names used here
FeatureNames == {"height", "influx", "wind"}
FeatureRank(f) == CASE f = "height" -> 1 [] f = "influx" -> 2 [] f = "wind" -> 3

\* sorted(str(item) for item in features)
Sorted(features) == SortSeq(features, LAMBDA a, b : FeatureRank(a) < FeatureRank(b))

\* _expected_cutout_metadata(entry)
ExpectedCutoutMetadata(entry) ==
    [module |-> entry.cutout.module,
     x |-> ToFloatList(entry.cutout.x),
     y |-> ToFloatList(entry.cutout.y),
     time |-> NormalizeTime(entry.cutout.time),
     features |-> Sorted(entry.prepare.features)]

\* one "field (expected=X, actual=Y)" string of the mismatch list
Mismatch(field, expected, actual) ==
    [field |-> field, expected |-> expected, actual |-> actual]

\* the bounds check of one axis: compared only when the declared list has 2 floats
AxisMismatches(field, expected_axis, observed_axis) ==
    IF Len(expected_axis) = 2
    THEN IF ~(/\ CloseEnough(observed_axis[1], expected_axis[1])
              /\ CloseEnough(observed_axis[2], expected_axis[2]))
         THEN <<Mismatch(field, expected_axis, observed_axis)>>
         ELSE <<>>
    ELSE <<>>

\* _compare_cutout_to_config(entry, local_file=...) once inspect_cutout_metadata
\* has returned `observed`
CompareCutoutToConfig(entry, local_file, observed) ==
    LET expected == ExpectedCutoutMetadata(entry)
        found == [module |-> observed.cutout.module,
                  x |-> observed.cutout.x,
                  y |-> observed.cutout.y,
                  time |-> NormalizeTime(observed.cutout.time),
                  features |-> Sorted(observed.prepare.features)]
        mismatches ==
            (IF observed.cutout.module # expected.module
             THEN <<Mismatch("module", expected.module, observed.cutout.module)>>
             ELSE <<>>)
            \o AxisMismatches("x", expected.x, observed.cutout.x)
            \o AxisMismatches("y", expected.y, observed.cutout.y)
            \o (IF expected.time # NormalizeTime(observed.cutout.time)
                THEN <<Mismatch("time", expected.time,
                                NormalizeTime(observed.cutout.time))>>
                ELSE <<>>)
            \o (IF expected.features # Sorted(observed.prepare.features)
                THEN <<Mismatch("features", expected.features,
                                Sorted(observed.prepare.features))>>
                ELSE <<>>)
    IN [name |-> entry.name,
        filename |-> entry.filename,
        path |-> local_file,
        status |-> IF mismatches = <<>> THEN "match" ELSE "mismatch",
        mismatches |-> mismatches,
        expected |-> expected,
        observed |-> found,
        error |-> ""]

(***************************************************************************)
(* Targets and paths: service/runner.py                                    *)
(*                                                                         *)
(* A target is a sequence of characters, so that the string operations of  *)
(* the code (slicing, rstrip, split) are modelled as they compute.         *)
(***************************************************************************)

RECURSIVE Str(_)
Str(chars) == IF chars = <<>> THEN "" ELSE Head(chars) \o Str(Tail(chars))

\* mutant: the drive-letter test is left out
IsRemoteTargetNoDrive(target) ==
    IF Len(target) < 3 THEN FALSE
    ELSE \E i \in 1..Len(target) : target[i] = ":"

\* _is_remote_target(target)
IsRemoteTarget(target) ==
    IF Len(target) < 3 THEN FALSE
    ELSE IF target[2] = ":" /\ target[3] = "\\" THEN FALSE
    ELSE \E i \in 1..Len(target) : target[i] = ":"

\* target.rstrip('/')
RECURSIVE RStripSlash(_)
RStripSlash(chars) ==
    IF chars # <<>> /\ chars[Len(chars)] = "/"
    THEN RStripSlash(SubSeq(chars, 1, Len(chars) - 1))
    ELSE chars

\* _resolve_target_path(target, filename)
ResolveTargetPath(target, filename) == Str(RStripSlash(target)) \o "/" \o filename

\* str(Path(target) / filename): pathlib drops repeated and trailing slashes
RECURSIVE CollapseSlashes(_)
CollapseSlashes(chars) ==
    IF Len(chars) < 2 THEN chars
    ELSE IF chars[1] = "/" /\ chars[2] = "/" THEN CollapseSlashes(Tail(chars))
    ELSE <<chars[1]>> \o CollapseSlashes(Tail(chars))

PathOf(target) ==
    LET c == CollapseSlashes(target)
    IN IF Len(c) > 1 /\ c[Len(c)] = "/" THEN SubSeq(c, 1, Len(c) - 1) ELSE c

LocalFile(target, filename) ==
    IF PathOf(target) = <<"/">> THEN "/" \o filename
    ELSE Str(PathOf(target)) \o "/" \o filename

\* target.split(":", 1)
FirstColon(target) ==
    CHOOSE i \in 1..Len(target) :
        target[i] = ":" /\ \A j \in 1..(i - 1) : target[j] # ":"

\* _remote_target_parts(target): raises ValueError on an empty host or directory
RemoteTargetParts(target) ==
    LET k == FirstColon(target)
        host == SubSeq(target, 1, k - 1)
        remote_dir == SubSeq(target, k + 1, Len(target))
    IN [raises |-> (Len(host) = 0 \/ Len(remote_dir) = 0),
        host |-> host, remote_dir |-> remote_dir]

\* the destination string built by _copy_to_remote_target
RemoteDestination(target, filename) ==
    LET parts == RemoteTargetParts(target)
    IN Str(parts.host) \o ":" \o ResolveTargetPath(parts.remote_dir, filename)

(***************************************************************************)
(* The fetch configuration                                                 *)
(***************************************************************************)

\* the longest configuration explored
MaxEntries == 2

NoName == "<None>"

\* CutoutFetchConfigEntry; cutout.keys are the keys present in the cutout mapping
Entry(entry_name, filename, target, keys, module, x, y, time, features) ==
    [name |-> entry_name, filename |-> filename, target |-> target,
     cutout |-> [keys |-> keys, module |-> module, x |-> x, y |-> y, time |-> time],
     prepare |-> [features |-> features]]

RequiredCutoutKeys == {"module", "x", "y", "time"}

X12 == List(<<Num(10000000), Num(20000000)>>)
Y34 == List(<<Num(30000000), Num(40000000)>>)
X123 == List(<<Num(10000000), Num(20000000), Num(30000000)>>)

LocalA == Entry("a", "f.nc", <<"d">>, RequiredCutoutKeys,
                "era5", X12, Y34, Scalar("2024"), <<"wind", "height">>)
LocalB == Entry("b", "f.nc", <<"d", "/">>, RequiredCutoutKeys,
                "sarah", X12, Y34, Scalar("2024"), <<"height", "wind">>)
LocalBadX == Entry("a", "g.nc", <<"d">>, RequiredCutoutKeys,
                   "era5", X123, Y34, Scalar("2024"), <<"height", "wind">>)
RemoteA == Entry(NoName, "g.nc", <<"h", ":", "r", "/">>, RequiredCutoutKeys,
                 "era5", X12, Y34, Scalar("2024"), <<"wind">>)
RemoteNoHost == Entry("b", "g.nc", <<":", "r", "r">>, RequiredCutoutKeys,
                      "era5", X12, Y34, Scalar("2024"), <<"wind">>)
NoTime == Entry("b", "f.nc", <<"d">>, {"module", "x", "y"},
                "era5", X12, Y34, Scalar(""), <<"wind">>)

NoModule == Entry("a", "g.nc", <<"d">>, {"x", "y", "time"},
                  "", X12, Y34, Scalar("2024"), <<"wind">>)

EntryPool == {LocalA, LocalB, LocalBadX, RemoteA, RemoteNoHost, NoTime, NoModule}

Configs == UNION {[1..n -> EntryPool] : n \in 1..MaxEntries}

Names == {NoName, "a", "z"}

(***************************************************************************)
(* Files                                                                   *)
(***************************************************************************)

\* CutoutInspectResponse as far as the diff reads it
Observed(module, x, y, time, features) ==
    [cutout |-> [module |-> module, x |-> x, y |-> y, time |-> time],
     prepare |-> [features |-> features]]

ObsA == Observed("era5", <<10000000, 20000000>>, <<30000000, 40000000>>,
                 Scalar("2024"), <<"height", "wind">>)
ObsB == Observed("era5", <<10000020, 20000000>>, <<30000000, 40000000>>,
                 List(<<"2024-01-01T00:00:00", "2024-06-30T23:00:00">>), <<"wind">>)

\* a file: `writer` is 0 for a file that was there before the run, else the
\* position (in entries) of the entry whose preparation wrote it; an unreadable
\* file makes inspect_cutout_metadata raise
File(readable, observed, writer) ==
    [present |-> TRUE, readable |-> readable, observed |-> observed, writer |-> writer]
Absent == [present |-> FALSE, readable |-> FALSE, observed |-> ObsA, writer |-> 0]
OldA == File(TRUE, ObsA, 0)
OldB == File(TRUE, ObsB, 0)
Corrupt == File(FALSE, ObsA, 0)

\* what inspecting a file prepared from `entry` yields
PreparedObserved(entry) ==
    Observed(entry.cutout.module, ToFloatList(entry.cutout.x),
             ToFloatList(entry.cutout.y), entry.cutout.time, entry.prepare.features)

\* cutout.prepare(**entry.prepare) writes the whole file at the cutout's path
PreparedFile(entry, k) == File(TRUE, PreparedObserved(entry), k)

LocalPaths == {LocalFile(e.target, e.filename) : e \in EntryPool}
RemoteEntries == {e \in EntryPool :
                    IsRemoteTarget(e.target) /\ ~RemoteTargetParts(e.target).raises}
RemoteDests == {RemoteDestination(e.target, e.filename) : e \in RemoteEntries}

\* the files a configuration can touch
DestsOf(cfg) ==
    {LocalFile(cfg[i].target, cfg[i].filename) : i \in {j \in DOMAIN cfg : ~IsRemoteTarget(cfg[j].target)}}

(***************************************************************************)
(* fetch_cutouts: service/runner.py                                        *)
(***************************************************************************)

NoError == [type |-> "", at |-> "", k |-> 0]
Error(type, at, k) == [type |-> type, at |-> at, k |-> k]

NoResponse == [status |-> "", fetched |-> <<>>, skipped |-> <<>>,
               fetched_count |-> 0, skipped_count |-> 0]

NoReport == [enabled |-> FALSE, checked |-> 0, matched |-> 0, mismatched |-> 0,
             missing |-> 0, remote_skipped |-> 0, errors |-> 0, entries |-> <<>>]

\* _empty_validation_report()
EmptyValidationReport == [NoReport EXCEPT !.enabled = TRUE]

\* CutoutValidationEntry(name=, filename=, path=, status=, expected=, error=)
ValidationEntry(entry, path, status, error) ==
    [name |-> entry.name, filename |-> entry.filename, path |-> path,
     status |-> status, mismatches |-> <<>>,
     expected |-> ExpectedCutoutMetadata(entry),
     observed |-> <<>>, error |-> error]

\* CutoutValidationEntry.model_validate(result)
ValidatedEntry(result) == [result EXCEPT !.observed = <<result.observed>>]

\* mutant: only the presence of cutout.module is checked
ConfigValidModuleOnly(cfg) ==
    /\ Len(cfg) >= 1
    /\ \A i \in DOMAIN cfg : "module" \in cfg[i].cutout.keys

\* CutoutFetchConfig.model_validate(payload): every entry has the four cutout fields
ConfigValid(cfg) ==
    /\ Len(cfg) >= 1
    /\ \A i \in DOMAIN cfg : RequiredCutoutKeys \subseteq cfg[i].cutout.keys

\* mutant: the name filter is not applied
RECURSIVE SelectEveryEntry(_, _, _)
SelectEveryEntry(cfg, wanted, i) ==
    IF i > Len(cfg) THEN <<>> ELSE <<i>> \o SelectEveryEntry(cfg, wanted, i + 1)

\* entries = [entry for entry in entries if entry.name == name]  (positions kept)
RECURSIVE SelectByName(_, _, _)
SelectByName(cfg, wanted, i) ==
    IF i > Len(cfg) THEN <<>>
    ELSE (IF wanted = NoName \/ cfg[i].name = wanted THEN <<i>> ELSE <<>>)
         \o SelectByName(cfg, wanted, i + 1)

\* the entry the loop is at
Cur == config[entries[idx]]
CurIsRemote == IsRemoteTarget(Cur.target)
CurLocalFile == LocalFile(Cur.target, Cur.filename)
CurDestination == ResolveTargetPath(Cur.target, Cur.filename)

\* history: one external call or decision of the entry at position idx
Event(ev, arg, ok) == [ev |-> ev, k |-> idx, arg |-> arg, ok |-> ok]

\* lines 316-326: load and validate the configuration, apply the name filter
Load ==
    /\ pc = "load"
    /\ IF ~ConfigValid(config)
       THEN /\ raised' = Error("ValidationError", "load", 0)
            /\ pc' = "raised"
            /\ UNCHANGED <<entries, validation_report>>
       ELSE LET selected == SelectByName(config, name, 1)
            IN IF name # NoName /\ selected = <<>>
               THEN /\ raised' = Error("ValueError", "name", 0)
                    /\ pc' = "raised"
                    /\ UNCHANGED <<entries, validation_report>>
               ELSE /\ entries' = selected
                    /\ validation_report' =
                          IF report_validate_existing THEN EmptyValidationReport
                          ELSE NoReport
                    /\ pc' = "probe"
                    /\ UNCHANGED raised
    /\ UNCHANGED <<config, force_refresh, name, report_validate_existing, idx,
                   exists, fs, remote, remoteDirs, staging, fetched, skipped,
                   response, log>>
    /\ UNCHANGED <<rvars, cvars, ovars>>

\* mutant: the loop is left after the first entry it completes
AdvanceToReturn == idx' = idx /\ pc' = "return"

\* mutant: a probe that cannot reach the host reads as "file present"
RemoteFileExistsUnlessReachable(target, filename, reachable) ==
    ~reachable \/ remote[RemoteDestination(target, filename)].present

\* _remote_file_exists: ssh host test -f; any non-zero exit reads as absent
RemoteFileExists(target, filename, reachable) ==
    reachable /\ remote[RemoteDestination(target, filename)].present

\* lines 329-337: the existence probe
Probe ==
    /\ pc = "probe"
    /\ IF CurIsRemote
       THEN IF RemoteTargetParts(Cur.target).raises
            THEN /\ raised' = Error("ValueError", "remote_target_parts", idx)
                 /\ pc' = "raised"
                 /\ UNCHANGED <<exists, log>>
            ELSE \E reachable \in BOOLEAN :
                   /\ exists' = RemoteFileExists(Cur.target, Cur.filename, reachable)
                   /\ log' = Append(log, Event("probe", RemoteDestination(Cur.target, Cur.filename),
                                               RemoteFileExists(Cur.target, Cur.filename, reachable)))
                   /\ pc' = "validate"
                   /\ UNCHANGED raised
       ELSE /\ exists' = fs[CurLocalFile].present
            /\ log' = Append(log, Event("probe", CurLocalFile, fs[CurLocalFile].present))
            /\ pc' = "validate"
            /\ UNCHANGED raised
    /\ UNCHANGED <<config, force_refresh, name, report_validate_existing, entries,
                   idx, fs, remote, remoteDirs, staging, fetched, skipped,
                   validation_report, response>>
    /\ UNCHANGED <<rvars, cvars, ovars>>

\* report.<counter> += 1; report.entries.append(entry)
Counted(report, counter, entry) ==
    [report EXCEPT ![counter] = @ + 1, !.entries = Append(@, entry)]

\* mutant: checked is not incremented
CountComparedUnchecked(report, result) ==
    Counted(report,
            IF result.status = "match" THEN "matched" ELSE "mismatched",
            ValidatedEntry(result))

\* lines 367-374: a compared entry counts as checked and as matched or mismatched
CountCompared(report, result) ==
    Counted([report EXCEPT !.checked = @ + 1],
            IF result.status = "match" THEN "matched" ELSE "mismatched",
            ValidatedEntry(result))

\* mutant: no try/except around the inspection
InspectErrorPropagates == FALSE

\* line 354: `except Exception` around _compare_cutout_to_config
InspectErrorCaught == TRUE

\* inspect_cutout_metadata(local_file) raises on a missing or unreadable file
InspectRaises(content) == ~(content.present /\ content.readable)

\* mutant: existence is tested before the target kind
ValidationBranchExistsFirst(is_remote, ex) ==
    IF ex THEN "inspect"
    ELSE IF is_remote THEN "remote_skipped"
    ELSE "missing"

\* lines 340, 351, 375: which branch of the validation an entry takes
ValidationBranch(is_remote, ex) ==
    IF is_remote THEN "remote_skipped"
    ELSE IF ex THEN "inspect"
    ELSE "missing"

\* lines 339-385: the validation entry of the current entry
Validate ==
    /\ pc = "validate"
    /\ IF ~validation_report.enabled
       THEN /\ pc' = "decide"
            /\ UNCHANGED <<validation_report, raised, log>>
       ELSE IF ValidationBranch(CurIsRemote, exists) = "remote_skipped"
       THEN /\ validation_report' =
                  Counted(validation_report, "remote_skipped",
                          ValidationEntry(Cur, CurDestination, "remote_skipped", ""))
            /\ pc' = "decide"
            /\ UNCHANGED <<raised, log>>
       ELSE IF ValidationBranch(CurIsRemote, exists) = "inspect"
       THEN /\ log' = Append(log, Event("inspect", CurLocalFile,
                                        fs[CurLocalFile].present /\ fs[CurLocalFile].readable))
            /\ IF InspectRaises(fs[CurLocalFile])
               THEN IF InspectErrorCaught
                    THEN /\ validation_report' =
                               Counted(validation_report, "errors",
                                       ValidationEntry(Cur, CurLocalFile, "error",
                                                       "cannot open " \o CurLocalFile))
                         /\ pc' = "decide"
                         /\ UNCHANGED raised
                    ELSE /\ raised' = Error("InspectError", "inspect", idx)
                         /\ pc' = "raised"
                         /\ UNCHANGED validation_report
               ELSE /\ validation_report' =
                          CountCompared(validation_report,
                                        CompareCutoutToConfig(Cur, CurLocalFile,
                                                              fs[CurLocalFile].observed))
                    /\ pc' = "decide"
                    /\ UNCHANGED raised
       ELSE /\ validation_report' =
                  Counted(validation_report, "missing",
                          ValidationEntry(Cur, CurLocalFile, "missing", ""))
            /\ pc' = "decide"
            /\ UNCHANGED <<raised, log>>
    /\ UNCHANGED <<config, force_refresh, name, report_validate_existing, entries,
                   idx, exists, fs, remote, remoteDirs, staging, fetched, skipped,
                   response>>
    /\ UNCHANGED <<rvars, cvars, ovars>>

\* the loop moves to the next entry, or fetch_cutouts reaches its return
Advance ==
    IF idx < Len(entries)
    THEN idx' = idx + 1 /\ pc' = "probe"
    ELSE idx' = idx /\ pc' = "return"

\* mutant: nothing is ever skipped
SkipNothing(ex, force) == FALSE

\* mutant: an existing destination is skipped even when a refresh is forced
SkipIgnoringForce(ex, force) == ex

\* line 387: if exists and not force_refresh
ShouldSkip(ex, force) == ex /\ ~force

\* lines 387-391, 400: skip, or branch to the remote or the local fetch
Decide ==
    /\ pc = "decide"
    /\ IF ShouldSkip(exists, force_refresh)
       THEN /\ skipped' = Append(skipped, CurDestination)
            /\ Advance
       ELSE /\ pc' = IF CurIsRemote THEN "r_prepare" ELSE "l_unlink"
            /\ UNCHANGED <<skipped, idx>>
    /\ UNCHANGED <<config, force_refresh, name, report_validate_existing, entries,
                   exists, fs, remote, remoteDirs, staging, fetched,
                   validation_report, raised, response, log>>
    /\ UNCHANGED <<rvars, cvars, ovars>>

\* mutant: the file being refreshed is left in place
UnlinkNever(force, present) == FALSE

\* line 403: if force_refresh and local_file.exists()
ShouldUnlink(force, present) == force /\ present

\* lines 400-404: make the target directory, delete a file being refreshed
LocalUnlink ==
    /\ pc = "l_unlink"
    /\ IF ShouldUnlink(force_refresh, fs[CurLocalFile].present)
       THEN /\ fs' = [fs EXCEPT ![CurLocalFile] = Absent]
            /\ log' = Append(log, Event("unlink", CurLocalFile, TRUE))
       ELSE UNCHANGED <<fs, log>>
    /\ pc' = "l_prepare"
    /\ UNCHANGED <<config, force_refresh, name, report_validate_existing, entries,
                   idx, exists, remote, remoteDirs, staging, fetched, skipped,
                   validation_report, raised, response>>
    /\ UNCHANGED <<rvars, cvars, ovars>>

\* _normalize_slice(value, axis=...): a list of exactly two items, else ValueError
SliceOk(value) == value.isList /\ Len(value.items) = 2

\* _build_cutout_kwargs(entry, cutout_file=...) returns without raising
CutoutKwargsOk(entry) == SliceOk(entry.cutout.x) /\ SliceOk(entry.cutout.y)

\* lines 405-407: build the arguments, construct the cutout, call prepare
LocalPrepareCall ==
    /\ pc = "l_prepare"
    /\ IF ~CutoutKwargsOk(Cur)
       THEN /\ raised' = Error("ValueError", "build_cutout_kwargs", idx)
            /\ pc' = "raised"
            /\ UNCHANGED log
       ELSE /\ log' = Append(log, Event("prepare", CurLocalFile,
                                        fs[CurLocalFile].present))
            /\ pc' = "l_preparing"
            /\ UNCHANGED raised
    /\ UNCHANGED <<config, force_refresh, name, report_validate_existing, entries,
                   idx, exists, fs, remote, remoteDirs, staging, fetched, skipped,
                   validation_report, response>>
    /\ UNCHANGED <<rvars, cvars, ovars>>

\* line 408: fetched.append(str(local_file))
LocalFetchedItem(entry) == LocalFile(entry.target, entry.filename)

\* lines 407-408: prepare returns (the file is written) or raises
LocalPrepareReturn ==
    /\ pc = "l_preparing"
    /\ \E ok \in BOOLEAN :
         IF ok
         THEN /\ fs' = [fs EXCEPT ![CurLocalFile] = PreparedFile(Cur, idx)]
              /\ fetched' = Append(fetched, LocalFetchedItem(Cur))
              /\ Advance
              /\ UNCHANGED raised
         ELSE /\ raised' = Error("PrepareError", "prepare", idx)
              /\ pc' = "raised"
              /\ UNCHANGED <<fs, fetched, idx>>
    /\ UNCHANGED <<config, force_refresh, name, report_validate_existing, entries,
                   exists, remote, remoteDirs, staging, skipped,
                   validation_report, response, log>>
    /\ UNCHANGED <<rvars, cvars, ovars>>

\* the staging path Path(tmp_dir) / filename inside tempfile.TemporaryDirectory()
StagingFile(entry) == "<tmp>/" \o entry.filename

\* lines 392-396: open the temporary directory, build the arguments, call prepare
RemotePrepareCall ==
    /\ pc = "r_prepare"
    /\ IF ~CutoutKwargsOk(Cur)
       THEN /\ raised' = Error("ValueError", "build_cutout_kwargs", idx)
            /\ pc' = "raised"
            /\ UNCHANGED log
       ELSE /\ log' = Append(log, Event("prepare", StagingFile(Cur), staging.present))
            /\ pc' = "r_preparing"
            /\ UNCHANGED raised
    /\ UNCHANGED <<config, force_refresh, name, report_validate_existing, entries,
                   idx, exists, fs, remote, remoteDirs, staging, fetched, skipped,
                   validation_report, response>>
    /\ UNCHANGED <<rvars, cvars, ovars>>

\* mutant: the copy is started without creating the remote directory
CopyWithoutMkdir == "r_scp"

\* lines 172-178: _copy_to_remote_target starts by creating the remote directory
FirstCopyStep == "r_mkdir"

\* line 396: prepare returns (the staged file is written) or raises
RemotePrepareReturn ==
    /\ pc = "r_preparing"
    /\ \E ok \in BOOLEAN :
         IF ok
         THEN /\ staging' = PreparedFile(Cur, idx)
              /\ pc' = FirstCopyStep
              /\ UNCHANGED raised
         ELSE /\ raised' = Error("PrepareError", "prepare", idx)
              /\ pc' = "raised"
              /\ UNCHANGED staging
    /\ UNCHANGED <<config, force_refresh, name, report_validate_existing, entries,
                   idx, exists, fs, remote, remoteDirs, fetched, skipped,
                   validation_report, response, log>>
    /\ UNCHANGED <<rvars, cvars, ovars>>

\* mutant: check=False, a failing ssh or scp is ignored
TransportUnchecked == FALSE

\* check=True of the two subprocess.run calls of _copy_to_remote_target
TransportChecked == TRUE

\* lines 172-178: ssh host mkdir -p remote_dir
RemoteMkdir ==
    /\ pc = "r_mkdir"
    /\ \E ok \in BOOLEAN :
         /\ log' = Append(log, Event("ssh_mkdir",
                                     Str(RemoteTargetParts(Cur.target).remote_dir), ok))
         /\ IF ok
            THEN /\ remoteDirs' = remoteDirs \cup
                       {<<Str(RemoteTargetParts(Cur.target).host),
                          Str(RemoteTargetParts(Cur.target).remote_dir)>>}
                 /\ pc' = "r_scp"
                 /\ UNCHANGED <<raised, staging>>
            ELSE IF TransportChecked
            THEN /\ raised' = Error("CalledProcessError", "ssh_mkdir", idx)
                 /\ pc' = "raised"
                 /\ staging' = Absent
                 /\ UNCHANGED remoteDirs
            ELSE /\ pc' = "r_scp"
                 /\ UNCHANGED <<raised, staging, remoteDirs>>
    /\ UNCHANGED <<config, force_refresh, name, report_validate_existing, entries,
                   idx, exists, fs, remote, fetched, skipped,
                   validation_report, response>>
    /\ UNCHANGED <<rvars, cvars, ovars>>

\* line 397: fetched.append(_copy_to_remote_target(...)), the destination string
RemoteFetchedItem(entry) == RemoteDestination(entry.target, entry.filename)

\* lines 179-187, 397-398: scp the staged file, report, leave the temporary directory
RemoteScp ==
    /\ pc = "r_scp"
    /\ \E ok \in BOOLEAN :
         /\ log' = Append(log, Event("scp", RemoteDestination(Cur.target, Cur.filename), ok))
         /\ staging' = Absent
         /\ IF ok
            THEN /\ remote' = [remote EXCEPT
                                 ![RemoteDestination(Cur.target, Cur.filename)] = staging]
                 /\ fetched' = Append(fetched, RemoteFetchedItem(Cur))
                 /\ Advance
                 /\ UNCHANGED raised
            ELSE IF TransportChecked
            THEN /\ raised' = Error("CalledProcessError", "scp", idx)
                 /\ pc' = "raised"
                 /\ UNCHANGED <<remote, fetched, idx>>
            ELSE /\ fetched' = Append(fetched, RemoteFetchedItem(Cur))
                 /\ Advance
                 /\ UNCHANGED <<remote, raised>>
    /\ UNCHANGED <<config, force_refresh, name, report_validate_existing, entries,
                   exists, fs, remoteDirs, skipped, validation_report, response>>
    /\ UNCHANGED <<rvars, cvars, ovars>>

\* lines 410-417: the response
Return ==
    /\ pc = "return"
    /\ response' = [status |-> "ok", fetched |-> fetched, skipped |-> skipped,
                    fetched_count |-> Len(fetched), skipped_count |-> Len(skipped)]
    /\ pc' = "done"
    /\ UNCHANGED <<config, force_refresh, name, report_validate_existing, entries,
                   idx, exists, fs, remote, remoteDirs, staging, fetched, skipped,
                   validation_report, raised, log>>
    /\ UNCHANGED <<rvars, cvars, ovars>>

(***************************************************************************)
(* Two fetch_cutouts invocations on one local destination                  *)
(*                                                                         *)
(* Both invocations load the one-entry configuration <<LocalA>> without a  *)
(* validation report; each runs the statements of the loop body for that   *)
(* entry.  Every call into the file system is one step: in particular the  *)
(* local_file.exists() of line 403 and the local_file.unlink() of line 404 *)
(* are two steps.  cutout.prepare is taken to put the whole file in place  *)
(* when it returns (a whole-file replacement), and never to fail by        *)
(* itself, so that every failure seen here is caused by the other          *)
(* invocation.                                                             *)
(***************************************************************************)
Invocations == {1, 2}

RaceEntry == LocalA

\* the locals of an invocation before its loop starts
Invocation(force) ==
    [force_refresh |-> force, pc |-> "probe", exists |-> FALSE, probed |-> Absent,
     fetched |-> <<>>, skipped |-> <<>>, raised |-> NoError]

\* lines 335-337: exists = local_file.exists()
RaceProbe(i) ==
    /\ inv[i].pc = "probe"
    /\ inv' = [inv EXCEPT ![i].exists = dest.present, ![i].probed = dest,
                          ![i].pc = "decide"]
    /\ UNCHANGED dest
    /\ UNCHANGED <<tvars, pvars, svars>>
    /\ UNCHANGED <<rvars, cvars, fvars, nvars>>

\* lines 387-389: skip, or go on to the local branch (mkdir is idempotent)
RaceDecide(i) ==
    /\ inv[i].pc = "decide"
    /\ inv' = IF ShouldSkip(inv[i].exists, inv[i].force_refresh)
              THEN [inv EXCEPT ![i].skipped =
                                   Append(@, ResolveTargetPath(RaceEntry.target,
                                                               RaceEntry.filename)),
                               ![i].pc = "done"]
              ELSE [inv EXCEPT ![i].pc = "l_check"]
    /\ UNCHANGED dest
    /\ UNCHANGED <<tvars, pvars, svars>>
    /\ UNCHANGED <<rvars, cvars, fvars, nvars>>

\* line 403: if force_refresh and local_file.exists()
RaceUnlinkCheck(i) ==
    /\ inv[i].pc = "l_check"
    /\ inv' = [inv EXCEPT ![i].pc = IF ShouldUnlink(inv[i].force_refresh, dest.present)
                                    THEN "l_unlink" ELSE "l_prepare"]
    /\ UNCHANGED dest
    /\ UNCHANGED <<tvars, pvars, svars>>
    /\ UNCHANGED <<rvars, cvars, fvars, nvars>>

\* Path.unlink() (missing_ok is not passed): FileNotFoundError on a missing file
UnlinkRaises(file) == ~file.present

\* line 404: local_file.unlink()
RaceUnlink(i) ==
    /\ inv[i].pc = "l_unlink"
    /\ IF UnlinkRaises(dest)
       THEN /\ inv' = [inv EXCEPT ![i].raised = Error("FileNotFoundError", "unlink", 1),
                                  ![i].pc = "raised"]
            /\ UNCHANGED dest
       ELSE /\ dest' = Absent
            /\ inv' = [inv EXCEPT ![i].pc = "l_prepare"]
    /\ UNCHANGED <<tvars, pvars, svars>>
    /\ UNCHANGED <<rvars, cvars, fvars, nvars>>

\* lines 405-407: build the arguments, construct the cutout, call prepare
RacePrepareCall(i) ==
    /\ inv[i].pc = "l_prepare"
    /\ inv' = [inv EXCEPT ![i].pc = "l_preparing"]
    /\ UNCHANGED dest
    /\ UNCHANGED <<tvars, pvars, svars>>
    /\ UNCHANGED <<rvars, cvars, fvars, nvars>>

\* lines 407-408: prepare returns, the whole file is in place; fetched.append
RacePrepareReturn(i) ==
    /\ inv[i].pc = "l_preparing"
    /\ dest' = PreparedFile(RaceEntry, i)
    /\ inv' = [inv EXCEPT ![i].fetched = Append(@, LocalFetchedItem(RaceEntry)),
                          ![i].pc = "done"]
    /\ UNCHANGED <<tvars, pvars, svars>>
    /\ UNCHANGED <<rvars, cvars, fvars, nvars>>

(***************************************************************************)
(* Target strings handed to _is_remote_target                              *)
(***************************************************************************)
MaxTargetLen == 4

\* characters that decide the classification, and one that does not
TargetChars == {"a", ":", "\\", "/"}

RECURSIVE StringsUpTo(_)
StringsUpTo(n) ==
    IF n = 0 THEN {<<>>}
    ELSE LET shorter == StringsUpTo(n - 1)
         IN shorter \cup {Append(s, c) : s \in {t \in shorter : Len(t) = n - 1},
                                         c \in TargetChars}

Targets == StringsUpTo(MaxTargetLen)

\* _is_remote_target is applied to the drawn target
ClassifyTarget ==
    /\ ~clsResult.called
    /\ clsResult' = [called |-> TRUE, result |-> IsRemoteTarget(clsTarget)]
    /\ UNCHANGED clsTarget
    /\ UNCHANGED <<xvars, pvars, svars>>
    /\ UNCHANGED <<rvars, cvars, fvars, nvars>>

(***************************************************************************)
(* Turbine definitions: core/technology.py                                 *)
(*                                                                         *)
(* A definition is the parsed YAML mapping as far as the three functions   *)
(* read it: the values under P, V and POW.  Powers are integers in the     *)
(* unit of the file; a scale is held in thousandths (1.0 is 1000, 0.001 is *)
(* 1), so a scaled power is an integer number of thousandths.              *)
(***************************************************************************)
\* payload.get(key) of a key that is absent (or null)
NoValue == [isList |-> FALSE, items |-> <<>>]

TurbineDef(p, v, pow) == [P |-> p, V |-> v, POW |-> pow]

None == [some |-> FALSE, v |-> 0]
Some(v) == [some |-> TRUE, v |-> v]

\* to_float(value): float(value) for an int or float, else None
ToFloat(value) ==
    IF ~value.isList /\ value.items # <<>> /\ value.items[1].num
    THEN Some(value.items[1].v)
    ELSE None

\* to_float(item) for an item of a list
ItemToFloat(item) == IF item.num THEN Some(item.v) ELSE None

PowerThreshold == 100
ScaleMW == 1000
ScaleKW == 1

\* [abs(to_float(item)) for item in items if to_float(item) is not None]
RECURSIVE NumericMagnitudes(_)
NumericMagnitudes(items) ==
    IF items = <<>> THEN <<>>
    ELSE (IF ItemToFloat(Head(items)).some
          THEN <<Abs(ItemToFloat(Head(items)).v)>> ELSE <<>>)
         \o NumericMagnitudes(Tail(items))

\* max(values) of a non-empty list
RECURSIVE MaxOf(_)
MaxOf(values) ==
    IF Len(values) = 1 THEN values[1]
    ELSE LET rest == MaxOf(Tail(values))
         IN IF Head(values) > rest THEN Head(values) ELSE rest

\* mutant: a magnitude of exactly 100 already reads as kW
InferPowerScaleFrom100(payload) ==
    LET values == (IF ToFloat(payload.P).some
                   THEN <<Abs(ToFloat(payload.P).v)>> ELSE <<>>)
                  \o (IF payload.POW.isList
                      THEN NumericMagnitudes(payload.POW.items) ELSE <<>>)
    IN IF values = <<>> THEN ScaleMW
       ELSE IF MaxOf(values) >= PowerThreshold THEN ScaleKW
       ELSE ScaleMW

\* infer_power_scale(payload)
InferPowerScale(payload) ==
    LET values == (IF ToFloat(payload.P).some
                   THEN <<Abs(ToFloat(payload.P).v)>> ELSE <<>>)
                  \o (IF payload.POW.isList
                      THEN NumericMagnitudes(payload.POW.items) ELSE <<>>)
    IN IF values = <<>> THEN ScaleMW
       ELSE IF MaxOf(values) > PowerThreshold THEN ScaleKW
       ELSE ScaleMW

Point(speed, power_mw) == [speed |-> speed, power_mw |-> power_mw]

\* the loop over zip(speeds, powers) from position i on, powers scaled by
\* power_scale
RECURSIVE ZipPoints(_, _, _, _)
ZipPoints(speeds, powers, power_scale, i) ==
    IF i > Len(speeds) \/ i > Len(powers) THEN <<>>
    ELSE (IF ItemToFloat(speeds[i]).some /\ ItemToFloat(powers[i]).some
          THEN <<Point(ItemToFloat(speeds[i]).v,
                       ItemToFloat(powers[i]).v * power_scale)>>
          ELSE <<>>)
         \o ZipPoints(speeds, powers, power_scale, i + 1)

\* the scale a single value would get on its own
OwnScale(v) == IF Abs(v) > PowerThreshold THEN ScaleKW ELSE ScaleMW

\* mutant: every power is scaled by the unit its own magnitude suggests
ToCurvePointsOwnScale(payload) ==
    IF ~payload.V.isList \/ ~payload.POW.isList THEN <<>>
    ELSE LET points == ZipPoints(payload.V.items, payload.POW.items, 1, 1)
         IN [j \in DOMAIN points |->
                Point(points[j].speed, points[j].power_mw * OwnScale(points[j].power_mw))]

\* to_curve_points(payload)
ToCurvePoints(payload) ==
    IF ~payload.V.isList \/ ~payload.POW.isList THEN <<>>
    ELSE ZipPoints(payload.V.items, payload.POW.items, InferPowerScale(payload), 1)

\* rated_power_mw(payload)
RatedPowerMw(payload) ==
    IF ToFloat(payload.P).some
    THEN Some(ToFloat(payload.P).v * InferPowerScale(payload))
    ELSE LET curve_points == ToCurvePoints(payload)
         IN IF curve_points # <<>>
            THEN Some(MaxOf([j \in DOMAIN curve_points |-> curve_points[j].power_mw]))
            ELSE None

\* [float(item) for item in pow_values if to_float(item) is not None]
RECURSIVE FloatValues(_)
FloatValues(items) ==
    IF items = <<>> THEN <<>>
    ELSE (IF ItemToFloat(Head(items)).some THEN <<ItemToFloat(Head(items)).v>> ELSE <<>>)
         \o FloatValues(Tail(items))

\* the rated power turbine_metrics_from_file derives from a parsed definition
MetricsRatedPower(payload) ==
    IF RatedPowerMw(payload).some THEN RatedPowerMw(payload)
    ELSE IF payload.POW.isList /\ FloatValues(payload.POW.items) # <<>>
    THEN Some(MaxOf(FloatValues(payload.POW.items)) * InferPowerScale(payload))
    ELSE None

MaxCurve == 2

Speeds == {Num(3), Num(1), NotNum(0)}
Powers == {Num(50), Num(100), Num(101), Num(-200), NotNum(0)}

ListsOf(items, n) == UNION {[1..k -> items] : k \in 0..n}

\* the definitions the functions are applied to: P absent, numeric or not; V
\* and POW absent, not a list, or a list of up to MaxCurve items
TurbineDefs ==
    {TurbineDef(p, v, pow) :
        p \in {NoValue, Scalar(Num(7)), Scalar(Num(100)), Scalar(Num(-101)),
               Scalar(NotNum(0))},
        v \in {NoValue, Scalar(Num(3))} \cup {List(l) : l \in ListsOf(Speeds, MaxCurve)},
        pow \in {NoValue, Scalar(Num(5600))}
                \cup {List(l) : l \in ListsOf(Powers, MaxCurve)}}

\* the three functions are applied to the drawn definition
InspectDefinition ==
    /\ ~turbineOut.called
    /\ turbineOut' = [called |-> TRUE,
                      scale |-> InferPowerScale(turbinePayload),
                      curve |-> ToCurvePoints(turbinePayload),
                      rated |-> RatedPowerMw(turbinePayload),
                      metrics_rated |-> MetricsRatedPower(turbinePayload)]
    /\ UNCHANGED turbinePayload
    /\ UNCHANGED <<xvars, tvars, svars>>
    /\ UNCHANGED <<rvars, cvars, fvars, nvars>>

(***************************************************************************)
(* Solar payloads: SolarTechnologyConfig in core/models.py                 *)
(*                                                                         *)
(* A payload is the parsed mapping: its top-level keys and, when the value *)
(* under panel_parameters is a mapping, that mapping.  A value is null, a  *)
(* string, or a number that is valid for its field.                        *)
(***************************************************************************)
NullV == [kind |-> "null", s |-> ""]
StrV(s) == [kind |-> "str", s |-> s]
NumV == [kind |-> "num", s |-> ""]

\* a dict from a set of <<key, value>> pairs with distinct keys
DictOf(pairs) ==
    [k \in {p[1] : p \in pairs} |-> (CHOOSE p \in pairs : p[1] = k)[2]]

\* dict.get(key)
Get(d, key) == IF key \in DOMAIN d THEN d[key] ELSE NullV

Put(d, key, v) == [k \in DOMAIN d \cup {key} |-> IF k = key THEN v ELSE d[k]]

\* dict.setdefault(key, v)
SetDefault(d, key, v) == IF key \in DOMAIN d THEN d ELSE Put(d, key, v)

\* `not value` of a null or a string
Falsy(v) == v.kind = "null" \/ (v.kind = "str" /\ v.s = "")

SolarPayload(top, hasWrapper, wrapper) ==
    [top |-> top, hasWrapper |-> hasWrapper, wrapper |-> wrapper]

HuldKeys == {"efficiency", "c_temp_amb", "c_temp_irrad", "r_tamb", "r_tmod",
             "r_irradiance", "k_1", "k_2", "k_3", "k_4", "k_5", "k_6"}
BofingerKeys == {"threshold", "area", "rated_production", "A", "B", "C", "D",
                 "NOCT", "Tstd", "Tamb", "Intc", "ta"}

\* for key in ("name", "manufacturer", "source", "model")
SiblingKeys == <<"name", "manufacturer", "source", "model">>

DefaultSolarName == "API_Custom_Solar"

NoModel == ""

\* mutant: bofinger is tried before huld
InferModelBofingerFirst(payload) ==
    IF BofingerKeys \subseteq DOMAIN payload THEN "bofinger"
    ELSE IF HuldKeys \subseteq DOMAIN payload THEN "huld"
    ELSE NoModel

\* _infer_model(payload)
InferModel(payload) ==
    IF HuldKeys \subseteq DOMAIN payload THEN "huld"
    ELSE IF BofingerKeys \subseteq DOMAIN payload THEN "bofinger"
    ELSE NoModel

\* the loop of lines 97-99 from the i-th sibling key on
RECURSIVE MergeSiblings(_, _, _)
MergeSiblings(merged, value, i) ==
    IF i > Len(SiblingKeys) THEN merged
    ELSE LET key == SiblingKeys[i]
         IN MergeSiblings(IF key \in DOMAIN value /\ value[key] # NullV
                          THEN SetDefault(merged, key, value[key])
                          ELSE merged,
                          value, i + 1)

\* lines 94-100: a panel_parameters mapping replaces the payload
Unwrap(payload) ==
    IF payload.hasWrapper THEN MergeSiblings(payload.wrapper, payload.top, 1)
    ELSE payload.top

\* lines 102-106: no model key: the inferred model, if any, is filled in
WithInferredModel(value) ==
    IF "model" \notin DOMAIN value /\ InferModel(value) # NoModel
    THEN Put(value, "model", StrV(InferModel(value)))
    ELSE value

\* lines 108-110: a missing or falsy name becomes "API_Custom_Solar"
WithDefaultName(value) ==
    IF "name" \notin DOMAIN value \/ Falsy(Get(value, "name"))
    THEN Put(value, "name", StrV(DefaultSolarName))
    ELSE value

\* _unwrap_or_infer_payload(value)
UnwrapOrInferPayload(payload) == WithDefaultName(WithInferredModel(Unwrap(payload)))

\* the field declarations of lines 53-86 accept the normalized mapping
FieldsValid(value) ==
    /\ Get(value, "model").kind = "str" /\ Get(value, "model").s \in {"huld", "bofinger"}
    /\ Get(value, "name").kind = "str" /\ Get(value, "name").s # ""
    /\ Get(value, "manufacturer").kind \in {"str", "null"}
    /\ Get(value, "source").kind \in {"str", "null"}
    /\ Get(value, "inverter_efficiency").kind = "num"
    /\ \A k \in HuldKeys \cup BofingerKeys : Get(value, k).kind \in {"num", "null"}

\* _validate_model_specific_fields: the fields of the model that are None
MissingFields(value) ==
    {field \in (IF Get(value, "model").s = "huld" THEN HuldKeys ELSE BofingerKeys) :
        Get(value, field) = NullV}

NoConfig(normalized_model) ==
    [ok |-> FALSE, normalized_model |-> normalized_model, model |-> NoModel,
     name |-> "", manufacturer |-> NullV, source |-> NullV]

\* cls.model_validate(value)
ModelValidate(payload) ==
    LET value == UnwrapOrInferPayload(payload)
        normalized_model == IF Get(value, "model").kind = "str"
                            THEN Get(value, "model").s ELSE NoModel
    IN IF FieldsValid(value) /\ MissingFields(value) = {}
       THEN [ok |-> TRUE, normalized_model |-> normalized_model,
             model |-> Get(value, "model").s, name |-> Get(value, "name").s,
             manufacturer |-> Get(value, "manufacturer"),
             source |-> Get(value, "source")]
       ELSE NoConfig(normalized_model)

\* SolarTechnologyConfig.from_payload(payload, default_name=...)
FromPayload(payload, default_name) ==
    ModelValidate([payload EXCEPT !.top = SetDefault(@, "name", StrV(default_name))])

\* ---- the payloads from_payload is applied to ----
NumFields(keys) == {<<k, NumV>> : k \in keys}

NameChoices == {{}, {<<"name", NullV>>}, {<<"name", StrV("")>>}, {<<"name", StrV("N")>>}}
WrapperNameChoices == {{}, {<<"name", NullV>>}, {<<"name", StrV("W")>>}}
SourceChoices == {{}, {<<"source", StrV("S")>>}}
WrapperSourceChoices == {{}, {<<"source", StrV("WS")>>}}
ModelChoices == {{}, {<<"model", NullV>>}, {<<"model", StrV("bofinger")>>}}
WrapperModelChoices == {{}, {<<"model", StrV("huld")>>}}
HuldChoices == {{}, NumFields({"efficiency"}), NumFields(HuldKeys \ {"k_6"}),
                NumFields(HuldKeys),
                NumFields(HuldKeys \ {"k_6"}) \cup {<<"k_6", NullV>>}}
BofingerChoices == {{}, NumFields(BofingerKeys \ {"ta"}), NumFields(BofingerKeys)}
Inverter == {<<"inverter_efficiency", NumV>>}

EmptyDict == DictOf({})

SolarPayloads ==
    {SolarPayload(DictOf(n \cup s \cup m \cup h \cup b \cup Inverter), FALSE, EmptyDict) :
        n \in NameChoices, s \in SourceChoices, m \in ModelChoices,
        h \in HuldChoices, b \in BofingerChoices}
    \cup
    {SolarPayload(DictOf(n \cup s \cup m), TRUE,
                  DictOf(wn \cup ws \cup wm \cup h \cup b \cup Inverter)) :
        n \in NameChoices, s \in SourceChoices, m \in ModelChoices,
        wn \in WrapperNameChoices, ws \in WrapperSourceChoices,
        wm \in WrapperModelChoices,
        h \in {NumFields(HuldKeys \ {"k_6"}), NumFields(HuldKeys)},
        b \in {{}, NumFields(BofingerKeys)}}

DefaultNames == {"T"}

\* from_payload is applied to the drawn payload
BuildSolarConfig ==
    /\ ~solarOut.called
    /\ solarOut' = [called |-> TRUE, config |-> FromPayload(solarPayload, solarDefault)]
    /\ UNCHANGED <<solarPayload, solarDefault>>
    /\ UNCHANGED <<xvars, tvars, pvars>>
    /\ UNCHANGED <<rvars, cvars, fvars, nvars>>

(***************************************************************************)
(* Wind turbine configs: WindTurbineConfig in core/models.py               *)
(***************************************************************************)
WindArgs(n, hub, speeds, powers, rated, manufacturer, source) ==
    [name |-> n, hub_height_m |-> hub, wind_speeds |-> speeds,
     power_curve_mw |-> powers, rated_power_mw |-> rated,
     manufacturer |-> manufacturer, source |-> source]

\* the field declarations of lines 19-25 accept the arguments
WindFieldsValid(args) ==
    /\ args.name # ""
    /\ args.hub_height_m > 0
    /\ Len(args.wind_speeds) >= 2
    /\ Len(args.power_curve_mw) >= 2
    /\ args.rated_power_mw.some => args.rated_power_mw.v > 0

\* mutant: the curve lengths are not compared
CurveLengthsUnchecked(speeds, powers) == TRUE

\* _validate_curve_lengths: len(self.wind_speeds) == len(self.power_curve_mw)
CurveLengthsValid(speeds, powers) == Len(speeds) = Len(powers)

\* what the projection holds: the keys present and the value under each
WindPayload(keys, args) ==
    [keys |-> keys, name |-> args.name, HUB_HEIGHT |-> args.hub_height_m,
     V |-> args.wind_speeds, POW |-> args.power_curve_mw,
     P |-> args.rated_power_mw.v, manufacturer |-> args.manufacturer,
     source |-> args.source]

NoPayload == [keys |-> {}]

\* to_atlite_turbine(self)
ToAtliteTurbine(cfg) ==
    WindPayload({"name", "HUB_HEIGHT", "V", "POW"}
                \cup (IF cfg.rated_power_mw.some THEN {"P"} ELSE {})
                \cup (IF cfg.manufacturer # NullV THEN {"manufacturer"} ELSE {})
                \cup (IF cfg.source # NullV THEN {"source"} ELSE {}),
                cfg)

\* WindTurbineConfig(**args): the fields are validated, then the curve lengths
ConstructWindConfig(args) ==
    IF ~WindFieldsValid(args) THEN [ok |-> FALSE, error |-> "field"]
    ELSE IF ~CurveLengthsValid(args.wind_speeds, args.power_curve_mw)
    THEN [ok |-> FALSE, error |-> "same length"]
    ELSE [ok |-> TRUE, error |-> ""]

MaxWindLen == 3

WindSpeeds == {SubSeq(<<0, 10, 20, 30>>, 1, n) : n \in 1..MaxWindLen}
PowerCurves == UNION {[1..n -> {2, 4}] : n \in 1..MaxWindLen}

WindInputs ==
    {WindArgs("T", hub, speeds, powers, rated, manufacturer, source) :
        hub \in {0, 120}, speeds \in WindSpeeds, powers \in PowerCurves,
        rated \in {None, Some(3), Some(0)},
        manufacturer \in {NullV, StrV("ACME")}, source \in {NullV, StrV("api")}}

\* the config is constructed and, when that succeeds, projected
BuildWindConfig ==
    /\ ~windOut.called
    /\ windOut' = [called |-> TRUE,
                   config |-> ConstructWindConfig(windInput),
                   payload |-> IF ConstructWindConfig(windInput).ok
                               THEN ToAtliteTurbine(windInput) ELSE NoPayload]
    /\ UNCHANGED windInput
    /\ UNCHANGED <<mvars, avars, uvars>>
    /\ UNCHANGED <<xvars, tvars, pvars, svars>>
    /\ UNCHANGED <<rvars, cvars, fvars>>

(***************************************************************************)
(* Observed time range: _infer_time_value in service/api/cutout_metadata.py*)
(*                                                                         *)
(* A timestamp is [year, month, day, hour, minute] (seconds are 0).        *)
(***************************************************************************)
Stamp(year, month, day, hour, minute) ==
    [year |-> year, month |-> month, day |-> day, hour |-> hour,
     minute |-> minute]

IsLeap(year) == year % 4 = 0 /\ (year % 100 # 0 \/ year % 400 = 0)

\* pd.Period(start, freq="M").end_time.day
MonthEndDay(year, month) ==
    IF month = 2 THEN (IF IsLeap(year) THEN 29 ELSE 28)
    ELSE IF month \in {4, 6, 9, 11} THEN 30
    ELSE 31

\* f"{n:02d}" and f"{n:04d}" on the numbers that occur (years have 4 digits)
Pad2(n) == IF n < 10 THEN "0" \o ToString(n) ELSE ToString(n)
Pad4(n) ==
    IF n < 10 THEN "000" \o ToString(n)
    ELSE IF n < 100 THEN "00" \o ToString(n)
    ELSE IF n < 1000 THEN "0" \o ToString(n)
    ELSE ToString(n)

\* pd.Timestamp.isoformat()
IsoFormat(t) ==
    Pad4(t.year) \o "-" \o Pad2(t.month) \o "-" \o Pad2(t.day) \o "T"
    \o Pad2(t.hour) \o ":" \o Pad2(t.minute) \o ":00"

\* mutant: the end of the range is not looked at
InferTimeValueStartOnly(start, end) ==
    IF start.month = 1 /\ start.day = 1 /\ start.hour = 0
    THEN Scalar(Pad4(start.year))
    ELSE IF start.day = 1 /\ start.hour = 0
    THEN Scalar(Pad4(start.year) \o "-" \o Pad2(start.month))
    ELSE List(<<IsoFormat(start), IsoFormat(end)>>)

\* _infer_time_value(start, end)
InferTimeValue(start, end) ==
    IF /\ start.year = end.year
       /\ start.month = 1 /\ start.day = 1 /\ start.hour = 0
       /\ end.month = 12 /\ end.day = 31 /\ end.hour = 23
    THEN Scalar(Pad4(start.year))
    ELSE IF /\ start.year = end.year
            /\ start.month = end.month
            /\ start.day = 1 /\ start.hour = 0
            /\ end.day = MonthEndDay(start.year, start.month)
            /\ end.hour = 23
    THEN Scalar(Pad4(start.year) \o "-" \o Pad2(start.month))
    ELSE List(<<IsoFormat(start), IsoFormat(end)>>)

Years == {2023, 2024}
Months == {1, 2, 6, 12}
DaysOf(year, month) ==
    {d \in {1, 28, 30, MonthEndDay(year, month)} : d <= MonthEndDay(year, month)}
Hours == {0, 23}
Minutes == {0, 30}

Stamps ==
    UNION {{Stamp(year, month, day, hour, minute) :
                day \in DaysOf(year, month), hour \in Hours, minute \in Minutes} :
           year \in Years, month \in Months}

\* the position of a timestamp on the time axis
StampKey(t) ==
    ((((t.year * 12 + t.month) * 31 + t.day) * 24) + t.hour) * 60 + t.minute

\* the time row of _compare_cutout_to_config: the declared time against the
\* time inspect_cutout_metadata infers from the first and last time step
CompareTime ==
    /\ ~timeOut.called
    /\ LET inferred == InferTimeValue(timeStart, timeEnd)
           expected == NormalizeTime(timeDeclared)
           actual == NormalizeTime(inferred)
       IN timeOut' = [called |-> TRUE, inferred |-> inferred,
                      expected |-> expected, actual |-> actual,
                      mismatch |-> expected # actual]
    /\ UNCHANGED <<timeStart, timeEnd, timeDeclared>>
    /\ UNCHANGED <<wvars, avars, uvars>>
    /\ UNCHANGED <<xvars, tvars, pvars, svars>>
    /\ UNCHANGED <<rvars, cvars, fvars>>

(***************************************************************************)
(* API catalog snapshot and inspection routes: service/api                 *)
(***************************************************************************)
\* the order of Python's sorted() on the names used here
NameRank(n) == CASE n = "X" -> 1 [] n = "Y" -> 2 [] n = "a.nc" -> 3 [] n = "b.nc" -> 4

\* sorted(set(names))
SortedNames(names) ==
    CHOOSE seq \in [1..Cardinality(names) -> names] :
        /\ {seq[i] : i \in 1..Cardinality(names)} = names
        /\ \A i, j \in 1..Cardinality(names) :
              i < j => NameRank(seq[i]) < NameRank(seq[j])

\* item in list
InList(item, list) == \E i \in 1..Len(list) : list[i] = item

\* _list_local_yaml_names(directory)
ListLocalYamlNames(local_dir) ==
    SortedNames({t \in Technologies : <<local_dir, t>> \in localYaml})

\* fetch_atlite_turbines() / fetch_atlite_solar_technologies(), when the
\* library can be imported
FetchAtliteNames(local_dir) ==
    SortedNames({t \in Technologies : <<local_dir, t>> \in atliteListed})

\* get_available_turbines() / get_available_solar_technologies():
\* sorted(set(catalog["atlite"] + catalog["custom_..."]))
GetAvailable(local_dir) ==
    SortedNames({t \in Technologies :
                    \/ InList(t, FetchAtliteNames(local_dir))
                    \/ InList(t, ListLocalYamlNames(local_dir))})

\* mutant: only the library part of a failing listing is dropped
ListingOrLocal(local_dir) ==
    IF local_dir \in listingRaises THEN ListLocalYamlNames(local_dir)
    ELSE GetAvailable(local_dir)

\* try: get_available_...() except Exception: []
ListingOrEmpty(local_dir) ==
    IF local_dir \in listingRaises THEN <<>> ELSE GetAvailable(local_dir)

\* the *.nc files that may lie in the configured cutout source directory
CutoutFiles == {"a.nc"}

\* _discover_cutouts(config.cutout_sources): the names
DiscoverCutouts == SortedNames(ncFiles)

CatalogSnapshot(turbines, solar_technologies, cutouts, loaded) ==
    [available_turbines |-> turbines,
     available_solar_technologies |-> solar_technologies,
     available_cutouts |-> cutouts,
     loaded |-> loaded]

\* CatalogSnapshot(): what app.py applies before the startup event runs
EmptySnapshot == CatalogSnapshot(<<>>, <<>>, <<>>, FALSE)

\* load_catalog_snapshot()
LoadCatalogSnapshot ==
    CatalogSnapshot(ListingOrEmpty(WindDir), ListingOrEmpty(SolarDir),
                    DiscoverCutouts, TRUE)

\* lifespan: apply_catalog_snapshot(app_instance, load_catalog_snapshot())
Lifespan ==
    /\ snapshot' = LoadCatalogSnapshot
    /\ apiOut' = [called |-> TRUE, route |-> "startup",
                  raisedAtLoad |-> listingRaises, localAtLoad |-> localYaml,
                  listedAtLoad |-> atliteListed, ncAtLoad |-> ncFiles]
    /\ UNCHANGED <<listingRaises, ncFiles>>
    /\ UNCHANGED <<wvars, mvars, uvars>>
    /\ UNCHANGED <<xvars, tvars, pvars, svars>>
    /\ UNCHANGED <<rvars, cvars, fvars>>

\* mutant: the route asks the resolver whatever the snapshot lists
InspectResponseUngated(ident, available, local_dir, label) ==
    LET out == ResolveTechnologyFile(ident, local_dir, label)
    IN IF out.raised
       THEN [status |-> 404, detail |-> "ValueError", resolution |-> out]
       ELSE [status |-> 200, detail |-> "", resolution |-> out]

\* turbine_inspect / solar_technology_inspect: the snapshot gate, then
\* inspect_turbine / inspect_solar_technology with ValueError turned into 404
InspectResponse(ident, available, local_dir, label) ==
    IF ~InList(ident, available)
    THEN [status |-> 404, detail |-> "not in catalog", resolution |-> NoCall]
    ELSE LET out == ResolveTechnologyFile(ident, local_dir, label)
         IN IF out.raised
            THEN [status |-> 404, detail |-> "ValueError", resolution |-> out]
            ELSE [status |-> 200, detail |-> "", resolution |-> out]

\* GET /turbines/{turbine_model}
TurbineInspect(turbine_model) ==
    /\ apiOut' = [called |-> TRUE, route |-> "turbines", ident |-> turbine_model,
                  at |-> Lookup(turbine_model, WindDir, TurbineLabel),
                  response |-> InspectResponse(turbine_model,
                                               snapshot.available_turbines,
                                               WindDir, TurbineLabel)]
    /\ UNCHANGED <<listingRaises, ncFiles, snapshot>>
    /\ UNCHANGED <<wvars, mvars, uvars>>
    /\ UNCHANGED <<xvars, tvars, pvars, svars>>
    /\ UNCHANGED <<rvars, cvars, fvars>>

\* GET /solar-technologies/{technology}
SolarTechnologyInspect(technology) ==
    /\ apiOut' = [called |-> TRUE, route |-> "solar-technologies",
                  ident |-> technology,
                  at |-> Lookup(technology, SolarDir, SolarLabel),
                  response |-> InspectResponse(technology,
                                               snapshot.available_solar_technologies,
                                               SolarDir, SolarLabel)]
    /\ UNCHANGED <<listingRaises, ncFiles, snapshot>>
    /\ UNCHANGED <<wvars, mvars, uvars>>
    /\ UNCHANGED <<xvars, tvars, pvars, svars>>
    /\ UNCHANGED <<rvars, cvars, fvars>>

\* environment: the library's listing of a kind starts or stops raising
ToggleListing(local_dir) ==
    /\ listingRaises' = IF local_dir \in listingRaises
                        THEN listingRaises \ {local_dir}
                        ELSE listingRaises \cup {local_dir}
    /\ UNCHANGED <<ncFiles, snapshot, apiOut>>
    /\ UNCHANGED <<wvars, mvars, uvars>>
    /\ UNCHANGED <<xvars, tvars, pvars, svars>>
    /\ UNCHANGED <<rvars, cvars, fvars>>

\* environment: a cutout file appears in or disappears from the source directory
ToggleCutoutFile(file) ==
    /\ ncFiles' = IF file \in ncFiles THEN ncFiles \ {file}
                  ELSE ncFiles \cup {file}
    /\ UNCHANGED <<listingRaises, snapshot, apiOut>>
    /\ UNCHANGED <<wvars, mvars, uvars>>
    /\ UNCHANGED <<xvars, tvars, pvars, svars>>
    /\ UNCHANGED <<rvars, cvars, fvars>>

(***************************************************************************)
(* fetch_cutouts called again after it returned                            *)
(***************************************************************************)
\* after a run without force_refresh has returned, the caller calls
\* fetch_cutouts again with the same arguments: the locals start afresh, the
\* disk and the remote host are as the first run left them
CallAgain ==
    /\ pc = "done" /\ run = 1 /\ ~force_refresh
    /\ run' = 2
    /\ before' = [fs |-> fs, remote |-> remote]
    /\ pc' = "load" /\ entries' = <<>> /\ idx' = 1 /\ exists' = FALSE
    /\ staging' = Absent /\ fetched' = <<>> /\ skipped' = <<>>
    /\ validation_report' = NoReport /\ raised' = NoError
    /\ response' = NoResponse /\ log' = <<>>
    /\ UNCHANGED <<config, force_refresh, name, report_validate_existing, fs,
                   remote, remoteDirs>>
    /\ UNCHANGED <<wvars, mvars, avars>>
    /\ UNCHANGED <<xvars, tvars, pvars, svars>>
    /\ UNCHANGED <<rvars, cvars>>

(***************************************************************************)
(* Specifications                                                          *)
(***************************************************************************)

\* the variables of a part that a specification does not exercise
RIdle ==
    /\ localYaml = {} /\ atliteListed = {} /\ atliteOnDisk = {}
    /\ fetcherRaises = FALSE /\ resolveOut = NoCall
CIdle ==
    /\ cmpEntry = LocalA /\ cmpObserved = ObsA /\ cmpResult = NoCall
FIdle ==
    /\ config = <<LocalA>> /\ force_refresh = FALSE /\ name = NoName
    /\ report_validate_existing = FALSE /\ entries = <<>> /\ pc = "idle"
    /\ idx = 1 /\ exists = FALSE
    /\ fs = [p \in LocalPaths |-> Absent] /\ remote = [d \in RemoteDests |-> Absent]
    /\ remoteDirs = {} /\ staging = Absent /\ fetched = <<>> /\ skipped = <<>>
    /\ validation_report = NoReport /\ raised = NoError /\ response = NoResponse
    /\ log = <<>>

XIdle ==
    /\ dest = Absent
    /\ inv = [i \in Invocations |-> [Invocation(FALSE) EXCEPT !.pc = "idle"]]

TIdle == clsTarget = <<>> /\ clsResult = NoCall
PIdle == turbinePayload = TurbineDef(NoValue, NoValue, NoValue) /\ turbineOut = NoCall
SIdle ==
    /\ solarPayload = SolarPayload(EmptyDict, FALSE, EmptyDict)
    /\ solarDefault = "" /\ solarOut = NoCall
WIdle ==
    /\ windInput = WindArgs("", 0, <<>>, <<>>, None, NullV, NullV)
    /\ windOut = NoCall
MIdle ==
    /\ timeStart = <<>> /\ timeEnd = <<>> /\ timeDeclared = Scalar("")
    /\ timeOut = NoCall
AIdle ==
    /\ listingRaises = {} /\ ncFiles = {} /\ snapshot = EmptySnapshot
    /\ apiOut = NoCall
UIdle == run = 1 /\ before = <<>>
NIdle == WIdle /\ MIdle /\ AIdle /\ UIdle
\* the parts outside the resolver, the diff and the single invocation, at rest
OIdle == XIdle /\ TIdle /\ PIdle /\ SIdle /\ NIdle

\* files that may be there before fetch_cutouts runs
InitialContents == {Absent, OldA, OldB, Corrupt}

\* fetch_cutouts is called: any configuration, arguments and disk
FInit ==
    /\ config \in Configs
    /\ force_refresh \in BOOLEAN
    /\ name \in Names
    /\ report_validate_existing \in BOOLEAN
    /\ entries = <<>> /\ pc = "load" /\ idx = 1 /\ exists = FALSE
    /\ fs \in {f \in [LocalPaths -> InitialContents] :
                 \A p \in LocalPaths \ DestsOf(config) : f[p] = Absent}
    /\ remote \in {r \in [RemoteDests -> {Absent, OldA}] :
                     (\A i \in DOMAIN config : config[i] \notin RemoteEntries)
                        => \A d \in RemoteDests : r[d] = Absent}
    /\ remoteDirs = {} /\ staging = Absent /\ fetched = <<>> /\ skipped = <<>>
    /\ validation_report = NoReport /\ raised = NoError /\ response = NoResponse
    /\ log = <<>>

Init == FInit /\ RIdle /\ CIdle /\ OIdle

Next ==
    \/ Load
    \/ Probe
    \/ Validate
    \/ Decide
    \/ LocalUnlink
    \/ LocalPrepareCall
    \/ LocalPrepareReturn
    \/ RemotePrepareCall
    \/ RemotePrepareReturn
    \/ RemoteMkdir
    \/ RemoteScp
    \/ Return

Spec == Init /\ [][Next]_vars

\* the resolver over a changing disk and library
RInit == RIdle

RNext ==
    \/ \E t \in Technologies : InspectTurbine(t)
    \/ \E t \in Technologies : InspectSolarTechnology(t)
    \/ \E d \in LocalDirs, t \in Technologies : ToggleLocalYaml(d, t)
    \/ \E d \in LocalDirs, t \in Technologies : ToggleAtliteListed(d, t)
    \/ \E d \in LocalDirs, t \in Technologies : ToggleAtliteOnDisk(d, t)
    \/ ToggleFetcher

InitResolve == RInit /\ CIdle /\ FIdle /\ OIdle

SpecResolve == InitResolve /\ [][RNext]_vars

\* declared and observed metadata the diff is applied to
DeclaredModules == {"era5", "sarah"}
DeclaredXs == {X12,
               List(<<Num(10000010), Num(20000000)>>),
               List(<<Num(10000011), Num(20000000)>>),
               X123,
               List(<<NotNum(10000000), NotNum(20000000)>>),
               Scalar(Num(10000000))}
DeclaredYs == {Y34,
               List(<<Num(30000000), Num(39999980)>>),
               List(<<Num(30000000)>>)}
DeclaredTimes == {Scalar("2024"), Scalar("2024-01"),
                  List(<<"2024-01-01T00:00:00", "2024-06-30T23:00:00">>)}
DeclaredFeatures == {<<>>, <<"wind">>, <<"wind", "height">>, <<"height", "wind">>,
                     <<"wind", "wind">>}

ObservedModules == {"era5", "unknown"}
ObservedXs == {<<10000000, 20000000>>, <<10000020, 20000000>>}
ObservedYs == {<<30000000, 40000000>>, <<30000000, 39999980>>}
ObservedTimes == {Scalar("2024"),
                  List(<<"2024-01-01T00:00:00", "2024-06-30T23:00:00">>)}
ObservedFeatures == {<<"wind">>, <<"height", "wind">>, <<"wind", "height">>}

CInit ==
    /\ cmpEntry \in {Entry("a", "f.nc", <<"d">>, RequiredCutoutKeys, m, x, y, t, f) :
                       m \in DeclaredModules, x \in DeclaredXs, y \in DeclaredYs,
                       t \in DeclaredTimes, f \in DeclaredFeatures}
    /\ cmpObserved \in {Observed(m, x, y, t, f) :
                          m \in ObservedModules, x \in ObservedXs, y \in ObservedYs,
                          t \in ObservedTimes, f \in ObservedFeatures}
    /\ cmpResult = NoCall

\* _compare_cutout_to_config is applied to the drawn pair
CompareCutout ==
    /\ ~cmpResult.called
    /\ cmpResult' = [called |-> TRUE,
                     result |-> CompareCutoutToConfig(
                                    cmpEntry,
                                    LocalFile(cmpEntry.target, cmpEntry.filename),
                                    cmpObserved)]
    /\ UNCHANGED <<cmpEntry, cmpObserved>>
    /\ UNCHANGED <<rvars, fvars, ovars>>

CNext == CompareCutout

InitCompare == CInit /\ RIdle /\ FIdle /\ OIdle

SpecCompare == InitCompare /\ [][CNext]_vars

\* two invocations are started on a destination that is absent or holds a file
XInit ==
    /\ dest \in {Absent, OldA}
    /\ inv \in {[i \in Invocations |-> Invocation(f[i])] :
                  f \in [Invocations -> BOOLEAN]}

XNext ==
    \/ \E i \in Invocations : RaceProbe(i)
    \/ \E i \in Invocations : RaceDecide(i)
    \/ \E i \in Invocations : RaceUnlinkCheck(i)
    \/ \E i \in Invocations : RaceUnlink(i)
    \/ \E i \in Invocations : RacePrepareCall(i)
    \/ \E i \in Invocations : RacePrepareReturn(i)

InitRace == XInit /\ RIdle /\ CIdle /\ FIdle /\ TIdle /\ PIdle /\ SIdle /\ NIdle

SpecRace == InitRace /\ [][XNext]_vars

\* _is_remote_target over every target of up to MaxTargetLen characters
TInit == clsTarget \in Targets /\ clsResult = NoCall

TNext == ClassifyTarget

InitClassify == TInit /\ RIdle /\ CIdle /\ FIdle /\ XIdle /\ PIdle /\ SIdle /\ NIdle

SpecClassify == InitClassify /\ [][TNext]_vars

\* the turbine functions over the bounded definitions
PInit == turbinePayload \in TurbineDefs /\ turbineOut = NoCall

PNext == InspectDefinition

InitTurbine == PInit /\ RIdle /\ CIdle /\ FIdle /\ XIdle /\ TIdle /\ SIdle /\ NIdle

SpecTurbine == InitTurbine /\ [][PNext]_vars

\* from_payload over the bounded payloads
SInit ==
    /\ solarPayload \in SolarPayloads
    /\ solarDefault \in DefaultNames
    /\ solarOut = NoCall

SNext == BuildSolarConfig

InitSolar == SInit /\ RIdle /\ CIdle /\ FIdle /\ XIdle /\ TIdle /\ PIdle /\ NIdle

SpecSolar == InitSolar /\ [][SNext]_vars

\* WindTurbineConfig over the bounded keyword arguments
WInit == windInput \in WindInputs /\ windOut = NoCall

WNext == BuildWindConfig

InitWind == WInit /\ RIdle /\ CIdle /\ FIdle /\ XIdle /\ TIdle /\ PIdle /\ SIdle
            /\ MIdle /\ AIdle /\ UIdle

SpecWind == InitWind /\ [][WNext]_vars

\* the time comparison over the bounded observed ranges and declared times
MInit ==
    /\ timeStart \in Stamps
    /\ timeEnd \in {t \in Stamps : StampKey(timeStart) <= StampKey(t)}
    /\ timeDeclared \in DeclaredTimes
    /\ timeOut = NoCall

MNext == CompareTime

InitTime == MInit /\ RIdle /\ CIdle /\ FIdle /\ XIdle /\ TIdle /\ PIdle /\ SIdle
            /\ WIdle /\ AIdle /\ UIdle

SpecTime == InitTime /\ [][MNext]_vars

\* the definition files that come and go while the API is up
ApiFiles == {<<WindDir, "X">>, <<SolarDir, "X">>}

\* the API process: app.py applies the empty snapshot at import
AInit == AIdle

ANext ==
    \/ Lifespan
    \/ \E t \in Technologies : TurbineInspect(t)
    \/ \E t \in Technologies : SolarTechnologyInspect(t)
    \/ \E d \in LocalDirs : ToggleListing(d)
    \/ \E file \in CutoutFiles : ToggleCutoutFile(file)
    \/ \E f \in ApiFiles : ToggleLocalYaml(f[1], f[2])
    \/ \E f \in ApiFiles : ToggleAtliteListed(f[1], f[2])
    \/ \E f \in ApiFiles : ToggleAtliteOnDisk(f[1], f[2])

InitApi == AInit /\ RIdle /\ CIdle /\ FIdle /\ XIdle /\ TIdle /\ PIdle /\ SIdle
           /\ WIdle /\ MIdle /\ UIdle

SpecApi == InitApi /\ [][ANext]_vars

\* fetch_cutouts, and a second call once the first has returned
InitRerun == FInit /\ RIdle /\ CIdle /\ OIdle

NextRerun ==
    \/ Next
    \/ CallAgain

SpecRerun == InitRerun /\ [][NextRerun]_vars

(***************************************************************************)
(* Properties                                                              *)
(***************************************************************************)

\* C1: at every lookup, if <local_dir>/<technology>.yaml exists at that moment,
\* the result has provenance "custom" and is that local file, whatever the
\* library catalog holds for the identifier and whether or not its fetcher
\* fails; the library catalog is consulted only when the local file is absent.
C1_CustomWins ==
    resolveOut.called =>
        /\ resolveOut.at.localAtCall =>
              /\ ~resolveOut.out.raised
              /\ resolveOut.out.kind = "custom"
              /\ resolveOut.out.path =
                    LocalTechFile(resolveOut.at.local_dir, resolveOut.at.technology)
        /\ resolveOut.out.consulted => ~resolveOut.at.localAtCall

\* a custom file resolved while the library lists a same-named, existing entry
C1_Witness ==
    /\ resolveOut.called
    /\ resolveOut.at.localAtCall
    /\ resolveOut.at.listedAtCall /\ resolveOut.at.onDiskAtCall
    /\ ~resolveOut.at.fetcherRaisedAtCall
    /\ resolveOut.out.kind = "custom"

\* the library supplied the identifier at the lookup: the fetcher returned a
\* catalog, the catalog has the key, and the file it names exists
LibrarySupplied(at) ==
    ~at.fetcherRaisedAtCall /\ at.listedAtCall /\ at.onDiskAtCall

LabelOf(local_dir) == IF local_dir = WindDir THEN "Turbine" ELSE "Solar technology"

\* C4: with no local file, a raising catalog fetcher is never propagated (it
\* reads as an empty catalog); the lookup fails with the NotFound error carrying
\* the label and the identifier exactly when neither the local directory nor
\* the library supplies the identifier, and otherwise returns the library file.
C4_NotFoundExactly ==
    resolveOut.called =>
        /\ resolveOut.out.raised =>
              /\ resolveOut.out.kind = "ValueError"
              /\ resolveOut.out.label = LabelOf(resolveOut.at.local_dir)
              /\ resolveOut.out.ident = resolveOut.at.technology
        /\ resolveOut.out.raised <=>
              (~resolveOut.at.localAtCall /\ ~LibrarySupplied(resolveOut.at))
        /\ (~resolveOut.at.localAtCall /\ LibrarySupplied(resolveOut.at)) =>
              /\ resolveOut.out.kind = "atlite"
              /\ resolveOut.out.path =
                    AtliteTechFile(resolveOut.at.local_dir, resolveOut.at.technology)

\* a lookup whose fetcher raised, with no local file: NotFound, nothing propagated
C4_Witness ==
    /\ resolveOut.called
    /\ ~resolveOut.at.localAtCall
    /\ resolveOut.at.fetcherRaisedAtCall
    /\ resolveOut.at.listedAtCall /\ resolveOut.at.onDiskAtCall
    /\ resolveOut.out.raised
    /\ resolveOut.out.kind = "ValueError"
    /\ resolveOut.out.label = "Solar technology"

\* what the diff is meant to report, stated on the inputs
Count(seq, x) == Cardinality({i \in DOMAIN seq : seq[i] = x})
AxisAgrees(declared, observed) ==
    /\ declared.isList
    /\ Len(declared.items) = 2
    /\ \A i \in 1..2 :
          /\ declared.items[i].num
          /\ Abs(declared.items[i].v - observed[i]) <= Tolerance
FieldDiffers(field, entry, observed) ==
    CASE field = "module" -> entry.cutout.module # observed.cutout.module
      [] field = "x" -> ~AxisAgrees(entry.cutout.x, observed.cutout.x)
      [] field = "y" -> ~AxisAgrees(entry.cutout.y, observed.cutout.y)
      [] field = "time" ->
            NormalizeTime(entry.cutout.time) # NormalizeTime(observed.cutout.time)
      [] field = "features" ->
            \E f \in FeatureNames :
                Count(entry.prepare.features, f) # Count(observed.prepare.features, f)
DiffFields == {"module", "x", "y", "time", "features"}
MismatchesOf(result, field) ==
    Cardinality({i \in DOMAIN result.mismatches : result.mismatches[i].field = field})

\* C5: the mismatch list holds exactly one string for each of module, x, y,
\* time, features that differs (x and y within 1e-6, features ignoring order)
\* and none for a field that agrees; status is "match" iff the list is empty.
C5_DiffExact ==
    cmpResult.called =>
        /\ \A field \in DiffFields :
              MismatchesOf(cmpResult.result, field) =
                 IF FieldDiffers(field, cmpEntry, cmpObserved) THEN 1 ELSE 0
        /\ cmpResult.result.status = "match" <=> cmpResult.result.mismatches = <<>>

\* a declared axis _normalize_slice accepts and that holds numbers
WellFormedAxis(declared) ==
    declared.isList /\ Len(declared.items) = 2 /\ \A i \in 1..2 : declared.items[i].num

\* C5, on the declarations whose x and y are lists of two numbers: there the
\* diff is exact
C5_DiffExactOnWellFormed ==
    (cmpResult.called /\ WellFormedAxis(cmpEntry.cutout.x)
                      /\ WellFormedAxis(cmpEntry.cutout.y)) => C5_DiffExact

\* ---- fetch_cutouts: reading the history ----

\* the entry at position k of the selected entries
EntryAt(k) == config[entries[k]]

\* positions whose loop iteration ran to its end
Completed(k) ==
    /\ k \in 1..Len(entries)
    /\ pc \notin {"load", "idle"}
    /\ (k < idx \/ pc \in {"return", "done"})

\* positions whose existence probe has answered
Probed(k) == \E j \in DOMAIN log : log[j].ev = "probe" /\ log[j].k = k

\* what the existence probe of position k answered
ProbeOf(k) == \E j \in DOMAIN log : log[j].ev = "probe" /\ log[j].k = k /\ log[j].ok

\* how often an external call was made for position k
Calls(ev, k) == Cardinality({j \in DOMAIN log : log[j].ev = ev /\ log[j].k = k})

\* the rule of the claim: skip iff the destination exists and no refresh is forced
MustSkip(k) == ProbeOf(k) /\ ~force_refresh

\* "<target>/<filename>", the target's trailing slashes dropped
DestinationString(entry) == Str(RStripSlash(entry.target)) \o "/" \o entry.filename

\* the destinations of the completed positions 1..n that were (not) to be skipped
RECURSIVE ItemsUpTo(_, _)
ItemsUpTo(n, skip) ==
    IF n = 0 THEN <<>>
    ELSE ItemsUpTo(n - 1, skip)
         \o (IF MustSkip(n) = skip THEN <<DestinationString(EntryAt(n))>> ELSE <<>>)

CompletedCount == Cardinality({k \in 1..Len(entries) : Completed(k)})

\* C2: for every selected entry: if its destination exists and force_refresh is
\* false it is recorded in skipped and preparation is not invoked for it; in
\* every other case preparation is invoked exactly once and the entry is
\* recorded in fetched.  (Stated of the entries whose iteration ran to its end;
\* no entry is ever prepared twice, and none that is to be skipped is prepared.)
C2_SkipOrFetchOnce ==
    /\ \A k \in 1..Len(entries) :
          /\ Calls("prepare", k) <= 1
          /\ (Probed(k) /\ MustSkip(k)) => Calls("prepare", k) = 0
          /\ Completed(k) => Calls("prepare", k) = IF MustSkip(k) THEN 0 ELSE 1
    /\ skipped = ItemsUpTo(CompletedCount, TRUE)
    /\ fetched = ItemsUpTo(CompletedCount, FALSE)

\* a finished run that skipped its first entry and fetched its second
C2_Witness ==
    /\ pc = "done"
    /\ Len(entries) = 2
    /\ ~force_refresh
    /\ ProbeOf(1) /\ ~ProbeOf(2)
    /\ Len(skipped) = 1 /\ Len(fetched) = 1

\* position k is a local entry refreshed over a file that was there
Refreshed(k) ==
    /\ k \in 1..Len(entries)
    /\ force_refresh
    /\ ~IsRemoteTarget(EntryAt(k).target)
    /\ ProbeOf(k)

PathAt(k) == LocalFile(EntryAt(k).target, EntryAt(k).filename)

\* C3: force_refresh on a local target whose file exists: the file is deleted
\* before the preparation call starts, the file there afterwards is the one
\* that preparation wrote (never the old one), and the reported fetched item is
\* the local path <target>/<filename>.
C3_RefreshReplaces ==
    \A k \in 1..Len(entries) :
        Refreshed(k) =>
            /\ \A j \in DOMAIN log :
                  (log[j].ev = "prepare" /\ log[j].k = k) =>
                      /\ ~log[j].ok
                      /\ \E u \in 1..(j - 1) :
                            log[u].ev = "unlink" /\ log[u].k = k /\ log[u].arg = PathAt(k)
            /\ (pc = "l_preparing" /\ idx = k) => ~fs[PathAt(k)].present
            /\ Completed(k) =>
                  /\ fetched[k] = DestinationString(EntryAt(k))
                  /\ fs[PathAt(k)].present => fs[PathAt(k)].writer >= k
                  /\ (\A l \in (k + 1)..Len(entries) : PathAt(l) # PathAt(k)) =>
                        fs[PathAt(k)] = PreparedFile(EntryAt(k), k)

\* a finished force-refresh run that deleted and rewrote an existing local file
C3_Witness ==
    /\ pc = "done"
    /\ \E k \in 1..Len(entries) :
          /\ Refreshed(k)
          /\ Calls("unlink", k) = 1
          /\ fs[PathAt(k)].writer = k

Statuses == {"match", "mismatch", "missing", "remote_skipped", "error"}

\* the inspection of position k's file: whether it ran, and whether the file
\* could be read
Inspected(k) == Calls("inspect", k) > 0
InspectedReadable(k) ==
    \E j \in DOMAIN log : log[j].ev = "inspect" /\ log[j].k = k /\ log[j].ok

\* C6: the validation status of an entry is remote_skipped for a remote target
\* (its metadata never inspected), missing for a local target without file,
\* error (message captured) for a local file whose inspection raises, and match
\* or mismatch for a local file that is inspected; no other status occurs.
C6_StatusCases ==
    \A k \in 1..Len(validation_report.entries) :
        LET status == validation_report.entries[k].status
            is_remote == IsRemoteTarget(EntryAt(k).target)
        IN /\ status \in Statuses
           /\ is_remote => (status = "remote_skipped" /\ ~Inspected(k))
           /\ (~is_remote /\ ~ProbeOf(k)) => (status = "missing" /\ ~Inspected(k))
           /\ (~is_remote /\ ProbeOf(k)) => Calls("inspect", k) = 1
           /\ (~is_remote /\ ProbeOf(k) /\ ~InspectedReadable(k)) =>
                 (status = "error" /\ validation_report.entries[k].error # "")
           /\ (~is_remote /\ ProbeOf(k) /\ InspectedReadable(k)) =>
                 status \in {"match", "mismatch"}
           /\ status # "error" => validation_report.entries[k].error = ""

\* a report holding an entry of a remote file that exists and an error entry
C6_Witness ==
    /\ Len(validation_report.entries) = 2
    /\ \E k \in 1..2 : validation_report.entries[k].status = "error"
    /\ \E k \in 1..2 : /\ validation_report.entries[k].status = "remote_skipped"
                       /\ ProbeOf(k)

\* the current entry has been through the validation step
CurValidated ==
    \/ pc \in {"decide", "l_unlink", "l_prepare", "l_preparing", "r_prepare",
               "r_preparing", "r_mkdir", "r_scp", "return", "done"}
    \/ pc = "raised" /\ raised.at \in {"build_cutout_kwargs", "prepare",
                                       "ssh_mkdir", "scp"}

\* how many selected entries the validation step has reached
ReachedCount ==
    IF Len(entries) = 0 THEN 0
    ELSE (idx - 1) + (IF CurValidated THEN 1 ELSE 0)

\* C7: a failing inspection of one local cutout is reported as an "error" entry
\* and the pass goes on: the report holds exactly one entry, in configuration
\* order, for every selected entry reached, those after the failing one included.
C7_ErrorDoesNotAbort ==
    /\ raised.at # "inspect"
    /\ validation_report.enabled =>
          /\ Len(validation_report.entries) = ReachedCount
          /\ \A k \in 1..Len(validation_report.entries) :
                /\ validation_report.entries[k].name = EntryAt(k).name
                /\ validation_report.entries[k].filename = EntryAt(k).filename
                /\ (Inspected(k) /\ ~InspectedReadable(k)) =>
                      validation_report.entries[k].status = "error"
    /\ ~validation_report.enabled => validation_report.entries = <<>>

\* an entry reported after one whose inspection failed
C7_Witness ==
    /\ Len(validation_report.entries) = 2
    /\ validation_report.entries[1].status = "error"
    /\ validation_report.entries[2].status = "mismatch"

WithStatus(status) ==
    Cardinality({k \in DOMAIN validation_report.entries :
                    validation_report.entries[k].status = status})

\* C8: after any prefix of the entries, matched, mismatched, missing,
\* remote_skipped and errors count the report entries of that status,
\* checked = matched + mismatched, and checked + missing + remote_skipped +
\* errors is the number of report entries.
C8_CountersAgree ==
    /\ validation_report.matched = WithStatus("match")
    /\ validation_report.mismatched = WithStatus("mismatch")
    /\ validation_report.missing = WithStatus("missing")
    /\ validation_report.remote_skipped = WithStatus("remote_skipped")
    /\ validation_report.errors = WithStatus("error")
    /\ validation_report.checked =
          validation_report.matched + validation_report.mismatched
    /\ validation_report.checked + validation_report.missing
          + validation_report.remote_skipped + validation_report.errors
       = Len(validation_report.entries)

\* a report with one matched and one mismatched entry
C8_Witness ==
    /\ Len(validation_report.entries) = 2
    /\ validation_report.matched = 1
    /\ validation_report.mismatched = 1
    /\ validation_report.checked = 2

\* position k is a remote entry that was to be fetched
RemoteFetch(k) ==
    /\ k \in 1..Len(entries)
    /\ IsRemoteTarget(EntryAt(k).target)
    /\ Probed(k)
    /\ ~MustSkip(k)

\* "host:remote_dir/filename"
HostDirFile(entry) ==
    LET colon == FirstColon(entry.target)
    IN Str(SubSeq(entry.target, 1, colon - 1)) \o ":"
       \o Str(RStripSlash(SubSeq(entry.target, colon + 1, Len(entry.target))))
       \o "/" \o entry.filename

\* the place of position k's item in fetched
FetchedIndex(k) == Cardinality({l \in 1..k : ~MustSkip(l)})

\* C9: a remote target that is fetched goes through (1) preparation into a
\* staging path, (2) creation of the remote directory, (3) copy of the staged
\* file, each step starting only after the previous one succeeded; the reported
\* item is host:remote_dir/filename, and nothing is written under the local
\* directory named by the target string.
C9_RemoteProtocol ==
    /\ \A j \in DOMAIN log :
          /\ log[j].ev = "ssh_mkdir" =>
                /\ j > 1
                /\ log[j - 1].ev = "prepare" /\ log[j - 1].k = log[j].k
                /\ log[j - 1].arg = StagingFile(EntryAt(log[j].k))
                /\ RemoteFetch(log[j].k)
          /\ log[j].ev = "scp" =>
                /\ j > 1
                /\ log[j - 1].ev = "ssh_mkdir" /\ log[j - 1].k = log[j].k
                /\ log[j - 1].ok
          /\ (log[j].ev = "prepare" /\ IsRemoteTarget(EntryAt(log[j].k).target)) =>
                log[j].arg = StagingFile(EntryAt(log[j].k))
    /\ pc \in {"r_mkdir", "r_scp"} => staging = PreparedFile(Cur, idx)
    /\ pc = "r_scp" =>
          (log[Len(log)].ev = "ssh_mkdir" /\ log[Len(log)].ok /\ log[Len(log)].k = idx)
    /\ \A k \in 1..Len(entries) :
          /\ (RemoteFetch(k) /\ Completed(k)) =>
                /\ Calls("prepare", k) = 1 /\ Calls("ssh_mkdir", k) = 1
                /\ Calls("scp", k) = 1
                /\ fetched[FetchedIndex(k)] = HostDirFile(EntryAt(k))
                /\ remote[HostDirFile(EntryAt(k))].present
                /\ remote[HostDirFile(EntryAt(k))].writer >= k
                /\ (\A l \in (k + 1)..Len(entries) :
                       IsRemoteTarget(EntryAt(l).target) =>
                           HostDirFile(EntryAt(l)) # HostDirFile(EntryAt(k))) =>
                      remote[HostDirFile(EntryAt(k))] = PreparedFile(EntryAt(k), k)
          /\ IsRemoteTarget(EntryAt(k).target) => ~fs[PathAt(k)].present

\* a finished run whose remote entry was prepared, then copied
C9_Witness ==
    /\ pc = "done"
    /\ \E k \in 1..Len(entries) :
          /\ RemoteFetch(k)
          /\ fetched[FetchedIndex(k)] = "h:r/g.nc"
          /\ remote["h:r/g.nc"].writer = k

\* C10: a failing remote directory creation or copy propagates to the caller
\* unchanged, is not retried, is not followed by the copy (after a failed
\* mkdir), leaves the entry out of fetched, and no later entry is processed.
C10_TransportFailureIsFatal ==
    /\ \A j \in DOMAIN log :
          (log[j].ev \in {"ssh_mkdir", "scp"} /\ ~log[j].ok) =>
              /\ j = Len(log)
              /\ pc = "raised"
              /\ raised = Error("CalledProcessError", log[j].ev, log[j].k)
              /\ idx = log[j].k
              /\ response = NoResponse
              /\ Len(fetched) = FetchedIndex(log[j].k) - 1
              /\ Len(fetched) + Len(skipped) = log[j].k - 1
    /\ \A k \in 1..Len(entries) : Calls("ssh_mkdir", k) <= 1 /\ Calls("scp", k) <= 1

\* the remote directory creation failed while a later entry was still to come
C10_Witness ==
    /\ pc = "raised"
    /\ raised.at = "ssh_mkdir"
    /\ idx < Len(entries)
    /\ Len(log) > 0 /\ log[Len(log)].ev = "ssh_mkdir" /\ ~log[Len(log)].ok

\* an invocation has ended, by returning or by raising
RaceEnded(i) == inv[i].pc \in {"done", "raised"}

\* an invocation that skipped did so on a file that was whole when it probed
SkipsOnlyWholeFiles ==
    \A i \in Invocations :
        inv[i].skipped # <<>> => inv[i].probed.present /\ inv[i].probed.readable

\* once both have ended, the destination holds one whole file: the one that
\* was there, or the result of one invocation's preparation
DestinationWhole ==
    (\A i \in Invocations : RaceEnded(i)) =>
        /\ dest.present /\ dest.readable
        /\ \/ dest = OldA /\ \A i \in Invocations : inv[i].fetched = <<>>
           \/ \E i \in Invocations : /\ dest = PreparedFile(RaceEntry, i)
                                     /\ inv[i].fetched # <<>>

\* C11 (auxiliary): under every interleaving no invocation skips a file that is
\* not whole, and the destination ends up holding one whole file.
C11_NoCorruption == SkipsOnlyWholeFiles /\ DestinationWhole

\* C11: two concurrent fetch_cutouts on one local destination only duplicate
\* work: neither fails because of the other, neither skips a file that is not
\* whole, and the file left at the destination is the whole result of one
\* preparation.  (In SpecRace an invocation alone never fails.)
C11_RaceIsBenign ==
    /\ \A i \in Invocations : inv[i].raised = NoError
    /\ SkipsOnlyWholeFiles
    /\ DestinationWhole

\* the target starts with one character followed by ':\'
DriveLetterPattern(t) == Len(t) >= 3 /\ t[2] = ":" /\ t[3] = "\\"

HasColon(t) == \E i \in DOMAIN t : t[i] = ":"

\* C12: a target is classified remote exactly when it has at least 3
\* characters, contains ':' and is not a drive-letter pattern; every other
\* target is local.
C12_RemoteExactly ==
    clsResult.called =>
        (clsResult.result <=>
            (Len(clsTarget) >= 3 /\ HasColon(clsTarget) /\ ~DriveLetterPattern(clsTarget)))

\* a drive-letter path with a further colon was classified, as local
C12_Witness ==
    /\ clsResult.called
    /\ clsTarget = <<"a", ":", "\\", ":">>
    /\ ~clsResult.result

\* the configuration entries whose declared name is the filter
NamedIndices == {i \in DOMAIN config : config[i].name = name}

NamedLocalPaths ==
    {LocalFile(config[i].target, config[i].filename) :
        i \in {j \in NamedIndices : ~IsRemoteTarget(config[j].target)}}

NamedRemoteDests ==
    {RemoteDestination(config[i].target, config[i].filename) :
        i \in {j \in NamedIndices : config[j] \in RemoteEntries}}

NamedDestinations ==
    {ResolveTargetPath(config[i].target, config[i].filename) : i \in NamedIndices}

\* nothing was probed, inspected, prepared, copied or reported
NothingDone ==
    /\ log = <<>> /\ fetched = <<>> /\ skipped = <<>>
    /\ validation_report = NoReport /\ response = NoResponse
    /\ \A p \in LocalPaths : fs[p].writer = 0
    /\ \A d \in RemoteDests : remote[d].writer = 0

\* C13: with a name filter only the entries declared with that name are probed,
\* validated, prepared or reported and every other entry is left untouched;
\* when no entry has the name the call fails with the not-found error for the
\* name before any probe or preparation.  (Of configurations that load.)
C13_NameFilter ==
    (name # NoName /\ ConfigValid(config) /\ pc # "load") =>
        IF NamedIndices = {}
        THEN /\ pc = "raised"
             /\ raised = Error("ValueError", "name", 0)
             /\ NothingDone
        ELSE /\ raised.at # "name"
             /\ \A k \in DOMAIN entries : entries[k] \in NamedIndices
             /\ \A j \in DOMAIN log :
                   /\ log[j].k \in DOMAIN entries
                   /\ entries[log[j].k] \in NamedIndices
             /\ \A j \in DOMAIN validation_report.entries :
                   validation_report.entries[j].name = name
             /\ \A j \in DOMAIN fetched :
                   fetched[j] \in NamedLocalPaths \cup NamedRemoteDests
             /\ \A j \in DOMAIN skipped : skipped[j] \in NamedDestinations
             /\ \A p \in LocalPaths \ NamedLocalPaths :
                   /\ fs[p].writer = 0
                   /\ \A j \in DOMAIN log : log[j].arg # p
             /\ \A d \in RemoteDests \ NamedRemoteDests :
                   /\ remote[d].writer = 0
                   /\ \A j \in DOMAIN log : log[j].arg # d

\* a run filtered on "a" ended after preparing the second entry only, the first
\* entry's file (declared under another name) being absent throughout
C13_Witness ==
    /\ name = "a" /\ config = <<RemoteNoHost, LocalA>>
    /\ pc = "done" /\ Len(fetched) = 1 /\ Len(log) >= 2

\* some entry of the configuration lacks one of the four cutout fields
LacksCutoutField(cfg) ==
    \E i \in DOMAIN cfg :
        \E field \in {"module", "x", "y", "time"} : field \notin cfg[i].cutout.keys

\* C14: a configuration with an entry lacking one of cutout.module, x, y, time
\* is rejected at load: fetch_cutouts fails before any probe, validation or
\* preparation of any entry, whatever the name filter selects.
C14_RejectedAtLoad ==
    (LacksCutoutField(config) /\ pc # "load") =>
        /\ pc = "raised"
        /\ raised = Error("ValidationError", "load", 0)
        /\ entries = <<>>
        /\ NothingDone

\* a configuration whose first entry lacks cutout.time was rejected although
\* the filter names the second, valid entry
C14_Witness ==
    /\ config = <<NoTime, LocalA>> /\ name = "a"
    /\ pc = "raised" /\ raised.at = "load"

\* the magnitudes the unit is inferred from: the numeric P and the numeric
\* entries of the POW array
Magnitudes(payload) ==
    (IF ~payload.P.isList /\ payload.P.items # <<>> /\ payload.P.items[1].num
     THEN {Abs(payload.P.items[1].v)} ELSE {})
    \cup (IF payload.POW.isList
          THEN {Abs(payload.POW.items[i].v) :
                   i \in {j \in DOMAIN payload.POW.items : payload.POW.items[j].num}}
          ELSE {})

\* the scale the claim assigns to a definition
ClaimedScale(payload) ==
    IF \E m \in Magnitudes(payload) : m > 100 THEN ScaleKW ELSE ScaleMW

\* C15: infer_power_scale returns 0.001 iff some magnitude among the numeric P
\* and the numeric POW entries is strictly greater than 100, and 1.0 otherwise
\* (all at most 100, or no numeric value at all); non-numeric entries are
\* ignored and negative values count by magnitude.
C15_ScaleByMaxMagnitude ==
    turbineOut.called =>
        /\ turbineOut.scale \in {ScaleKW, ScaleMW}
        /\ turbineOut.scale = ScaleKW <=> \E m \in Magnitudes(turbinePayload) : m > 100
        /\ (\A m \in Magnitudes(turbinePayload) : m <= 100) => turbineOut.scale = ScaleMW

\* a definition whose largest magnitude is exactly 100, beside a non-numeric
\* entry, was scaled as MW
C15_Witness ==
    /\ turbineOut.called
    /\ turbinePayload.P = NoValue
    /\ turbinePayload.POW = List(<<NotNum(0), Num(100)>>)
    /\ turbineOut.scale = ScaleMW

\* positions of the zip where both sides are numeric
KeptPositions(payload) ==
    IF ~payload.V.isList \/ ~payload.POW.isList THEN {}
    ELSE {i \in DOMAIN payload.V.items \cap DOMAIN payload.POW.items :
            payload.V.items[i].num /\ payload.POW.items[i].num}

\* the j-th kept position, in input order
KeptPosition(payload, j) ==
    CHOOSE i \in KeptPositions(payload) :
        Cardinality({k \in KeptPositions(payload) : k < i}) = j - 1

\* C16: to_curve_points yields the pairs of zip(V, POW) whose two sides are
\* numeric, in input order, every power multiplied by the one scale of the
\* whole definition.
C16_CurveIsScaledZip ==
    turbineOut.called =>
        /\ Len(turbineOut.curve) = Cardinality(KeptPositions(turbinePayload))
        /\ \A j \in DOMAIN turbineOut.curve :
              LET i == KeptPosition(turbinePayload, j)
              IN /\ turbineOut.curve[j].speed = turbinePayload.V.items[i].v
                 /\ turbineOut.curve[j].power_mw =
                       turbinePayload.POW.items[i].v * ClaimedScale(turbinePayload)

\* a curve with one kW-like value and decreasing speeds keeps its order and is
\* scaled as kW throughout
C16_Witness ==
    /\ turbineOut.called
    /\ turbinePayload.V = List(<<Num(3), Num(1)>>)
    /\ turbinePayload.POW = List(<<Num(50), Num(101)>>)
    /\ turbinePayload.P = NoValue
    /\ turbineOut.curve = <<Point(3, 50), Point(1, 101)>>

\* the numeric values of the POW array
NumericPowers(payload) ==
    IF payload.POW.isList
    THEN {payload.POW.items[i].v :
             i \in {j \in DOMAIN payload.POW.items : payload.POW.items[j].num}}
    ELSE {}

HasNumericP(payload) ==
    ~payload.P.isList /\ payload.P.items # <<>> /\ payload.P.items[1].num

\* C17: rated_power_mw is P times the scale when P is numeric; without P it is
\* the largest numeric POW value times the scale whenever POW has a numeric
\* value (whatever V is); it is none only when neither is available.
C17_RatedPower ==
    turbineOut.called =>
        IF HasNumericP(turbinePayload)
        THEN turbineOut.rated =
                Some(turbinePayload.P.items[1].v * ClaimedScale(turbinePayload))
        ELSE IF NumericPowers(turbinePayload) # {}
        THEN /\ turbineOut.rated.some
             /\ \E m \in NumericPowers(turbinePayload) :
                   /\ \A n \in NumericPowers(turbinePayload) : n <= m
                   /\ turbineOut.rated.v = m * ClaimedScale(turbinePayload)
        ELSE turbineOut.rated = None

\* C17 (auxiliary): with a numeric P the result is P times the scale, and the
\* result is none whenever neither P nor a numeric POW value is available.
C17_RatedPowerFromP ==
    turbineOut.called =>
        /\ HasNumericP(turbinePayload) =>
              turbineOut.rated =
                 Some(turbinePayload.P.items[1].v * ClaimedScale(turbinePayload))
        /\ (~HasNumericP(turbinePayload) /\ NumericPowers(turbinePayload) = {}) =>
              turbineOut.rated = None

\* the mapping the model-specific fields are read from
ParameterKeys(p) == DOMAIN (IF p.hasWrapper THEN p.wrapper ELSE p.top)

\* the payload carries no model key at all
NoModelTag(p) == "model" \notin DOMAIN p.top /\ (p.hasWrapper => "model" \notin DOMAIN p.wrapper)

\* the model tags the payload states explicitly
ModelTags(p) ==
    {Get(p.top, "model").s : x \in {y \in {1} : Get(p.top, "model").kind = "str"}}
    \cup {Get(p.wrapper, "model").s :
             x \in {y \in {1} : p.hasWrapper /\ Get(p.wrapper, "model").kind = "str"}}

\* the model of the normalized payload is m, and so is that of a config built
ResolvedAs(m) ==
    /\ solarOut.config.normalized_model = m
    /\ solarOut.config.ok => solarOut.config.model = m

\* C18: without a model tag the model is huld when every huld field is among
\* the keys (also when every bofinger field is too), else bofinger when every
\* bofinger field is, else none is inferred and validation fails; an explicit
\* model tag is never replaced by an inferred one.
C18_ModelResolution ==
    solarOut.called =>
        /\ NoModelTag(solarPayload) =>
              IF HuldKeys \subseteq ParameterKeys(solarPayload) THEN ResolvedAs("huld")
              ELSE IF BofingerKeys \subseteq ParameterKeys(solarPayload)
              THEN ResolvedAs("bofinger")
              ELSE ResolvedAs(NoModel) /\ ~solarOut.config.ok
        /\ ModelTags(solarPayload) # {} =>
              /\ solarOut.config.normalized_model \in ModelTags(solarPayload)
              /\ solarOut.config.ok => solarOut.config.model \in ModelTags(solarPayload)

\* an untagged payload with every field of both families became a huld config
C18_Witness ==
    /\ solarOut.called
    /\ ~solarPayload.hasWrapper
    /\ NoModelTag(solarPayload)
    /\ HuldKeys \cup BofingerKeys \subseteq DOMAIN solarPayload.top
    /\ solarOut.config.ok
    /\ solarOut.config.model = "huld"

\* the payload states a non-empty string under key, at the top level
SiblingSpecifies(p, key) ==
    key \in DOMAIN p.top /\ p.top[key].kind = "str" /\ p.top[key].s # ""

NestedSpecifies(p, key) ==
    p.hasWrapper /\ key \in DOMAIN p.wrapper
    /\ p.wrapper[key].kind = "str" /\ p.wrapper[key].s # ""

\* the value the config built holds under name, manufacturer or source
ConfigValue(key) ==
    IF key = "name" THEN StrV(solarOut.config.name)
    ELSE IF key = "manufacturer" THEN solarOut.config.manufacturer
    ELSE solarOut.config.source

\* C19: for a payload with a panel_parameters object, under each of name,
\* manufacturer and source the config takes the top-level sibling's value when
\* the sibling specifies one, and the value inside panel_parameters only when
\* the sibling does not.
C19_SiblingWins ==
    (solarOut.called /\ solarOut.config.ok /\ solarPayload.hasWrapper) =>
        \A key \in {"name", "manufacturer", "source"} :
            IF SiblingSpecifies(solarPayload, key)
            THEN ConfigValue(key) = solarPayload.top[key]
            ELSE NestedSpecifies(solarPayload, key) =>
                    ConfigValue(key) = solarPayload.wrapper[key]

\* C19 (auxiliary): what the code does: the value inside panel_parameters is
\* taken when there is one, the sibling's only when panel_parameters has no
\* such key.
C19_NestedWins ==
    (solarOut.called /\ solarOut.config.ok /\ solarPayload.hasWrapper) =>
        \A key \in {"name", "manufacturer", "source"} :
            IF NestedSpecifies(solarPayload, key)
            THEN ConfigValue(key) = solarPayload.wrapper[key]
            ELSE (SiblingSpecifies(solarPayload, key) /\ key \notin DOMAIN solarPayload.wrapper)
                    => ConfigValue(key) = solarPayload.top[key]

\* the non-empty names the payload states, at the top level or nested
PayloadNames(p) ==
    {p.top["name"].s : x \in {y \in {1} : SiblingSpecifies(p, "name")}}
    \cup {p.wrapper["name"].s : x \in {y \in {1} : NestedSpecifies(p, "name")}}

\* C20: from_payload with a default_name: a payload whose name is absent or
\* empty (missing key, null, empty string) yields a config named default_name;
\* a non-empty payload name is kept.
C20_NameDefaults ==
    (solarOut.called /\ solarOut.config.ok) =>
        IF PayloadNames(solarPayload) = {}
        THEN solarOut.config.name = solarDefault
        ELSE solarOut.config.name \in PayloadNames(solarPayload)

\* C20 (auxiliary): a payload with no name key at all yields a config named
\* default_name, and a payload with a non-empty top-level name and no nested
\* name key keeps it.
C20_MissingKeyDefaults ==
    (solarOut.called /\ solarOut.config.ok) =>
        /\ ("name" \notin DOMAIN solarPayload.top
            /\ "name" \notin DOMAIN solarPayload.wrapper) =>
              solarOut.config.name = solarDefault
        /\ (SiblingSpecifies(solarPayload, "name")
            /\ "name" \notin DOMAIN solarPayload.wrapper) =>
              solarOut.config.name = solarPayload.top["name"].s
(***************************************************************************)
(* C21, C25: WindTurbineConfig                                             *)
(***************************************************************************)
WindBuilt == windOut.called /\ windOut.config.ok
WindRejected == windOut.called /\ ~windOut.config.ok

\* C21: construction succeeds only if wind_speeds and power_curve_mw have
\* the same length and rated_power_mw, when given, is positive; otherwise it
\* ends in a validation error and nothing is projected, so every config that
\* exists has curves of equal length.
C21_EqualCurveLengths ==
    windOut.called =>
        /\ windOut.config.ok =>
              /\ Len(windInput.wind_speeds) = Len(windInput.power_curve_mw)
              /\ windInput.rated_power_mw.some => windInput.rated_power_mw.v > 0
        /\ (\/ Len(windInput.wind_speeds) # Len(windInput.power_curve_mw)
            \/ (windInput.rated_power_mw.some /\ windInput.rated_power_mw.v <= 0))
           => /\ ~windOut.config.ok
              /\ windOut.config.error \in {"field", "same length"}
              /\ windOut.payload = NoPayload

\* fields that pass on their own, curves of lengths 3 and 2: rejected by the
\* length validator
C21_Witness ==
    /\ WindRejected
    /\ WindFieldsValid(windInput)
    /\ Len(windInput.wind_speeds) = 3
    /\ Len(windInput.power_curve_mw) = 2
    /\ windOut.config.error = "same length"

\* the rated power the payload is said to carry
ClaimedRatedPower(args) ==
    IF args.rated_power_mw.some THEN args.rated_power_mw.v
    ELSE MaxOf(args.power_curve_mw)

\* C25: the payload of a valid config carries name, the hub height under
\* HUB_HEIGHT and under hub_height, V, POW and always P, which is
\* rated_power_mw when given and max(power_curve_mw) otherwise; manufacturer
\* and source appear iff they were given.
C25_ProjectionPayload ==
    WindBuilt =>
        /\ {"name", "HUB_HEIGHT", "hub_height", "V", "POW", "P"}
              \subseteq windOut.payload.keys
        /\ windOut.payload.name = windInput.name
        /\ windOut.payload.HUB_HEIGHT = windInput.hub_height_m
        /\ windOut.payload.V = windInput.wind_speeds
        /\ windOut.payload.POW = windInput.power_curve_mw
        /\ windOut.payload.P = ClaimedRatedPower(windInput)
        /\ "manufacturer" \in windOut.payload.keys
              <=> windInput.manufacturer # NullV
        /\ "source" \in windOut.payload.keys <=> windInput.source # NullV
(***************************************************************************)
(* C22: time normalization                                                 *)
(***************************************************************************)
\* the hour that follows / precedes the hour of a timestamp
HourAfter(t) ==
    IF t.hour < 23 THEN Stamp(t.year, t.month, t.day, t.hour + 1, 0)
    ELSE IF t.day < MonthEndDay(t.year, t.month)
    THEN Stamp(t.year, t.month, t.day + 1, 0, 0)
    ELSE IF t.month < 12 THEN Stamp(t.year, t.month + 1, 1, 0, 0)
    ELSE Stamp(t.year + 1, 1, 1, 0, 0)

HourBefore(t) ==
    IF t.hour > 0 THEN Stamp(t.year, t.month, t.day, t.hour - 1, 0)
    ELSE IF t.day > 1 THEN Stamp(t.year, t.month, t.day - 1, 23, 0)
    ELSE IF t.month > 1
    THEN Stamp(t.year, t.month - 1, MonthEndDay(t.year, t.month - 1), 23, 0)
    ELSE Stamp(t.year - 1, 12, 31, 23, 0)

\* the hours from that of start to that of end are those of one calendar year
SpansYear(start, end) ==
    /\ start.year = end.year
    /\ HourBefore(start).year = start.year - 1
    /\ HourAfter(end).year = end.year + 1

\* the hours from that of start to that of end are those of one calendar month
SpansMonth(start, end) ==
    /\ start.year = end.year /\ start.month = end.month
    /\ <<HourBefore(start).year, HourBefore(start).month>>
          # <<start.year, start.month>>
    /\ <<HourAfter(end).year, HourAfter(end).month>> # <<end.year, end.month>>

\* C22: the observed range is rendered 'YYYY' when it spans exactly one
\* calendar year, 'YYYY-MM' when it spans exactly one calendar month, and
\* otherwise as the two ISO timestamps joined with '|'; a declared list is
\* joined with '|' and a declared scalar is its string.  A declared '2024'
\* matches 1 Jan .. 31 Dec 2024 and mismatches 1 Jan .. 30 Jun 2024.
C22_TimeNormalization ==
    timeOut.called =>
        /\ timeOut.actual =
              IF SpansYear(timeStart, timeEnd) THEN ToString(timeStart.year)
              ELSE IF SpansMonth(timeStart, timeEnd)
              THEN ToString(timeStart.year) \o "-" \o Pad2(timeStart.month)
              ELSE IsoFormat(timeStart) \o "|" \o IsoFormat(timeEnd)
        /\ timeDeclared = Scalar("2024") => timeOut.expected = "2024"
        /\ timeDeclared = List(<<"2024-01-01T00:00:00", "2024-06-30T23:00:00">>)
              => timeOut.expected = "2024-01-01T00:00:00|2024-06-30T23:00:00"
        /\ timeOut.mismatch <=> timeOut.expected # timeOut.actual
        /\ (/\ timeDeclared = Scalar("2024")
            /\ <<timeStart.year, timeStart.month, timeStart.day, timeStart.hour>>
                  = <<2024, 1, 1, 0>>
            /\ <<timeEnd.year, timeEnd.month, timeEnd.day, timeEnd.hour>>
                  = <<2024, 12, 31, 23>>)
           => ~timeOut.mismatch
        /\ (/\ timeDeclared = Scalar("2024")
            /\ <<timeStart.year, timeStart.month, timeStart.day>> = <<2024, 1, 1>>
            /\ <<timeEnd.year, timeEnd.month, timeEnd.day>> = <<2024, 6, 30>>)
           => timeOut.mismatch

\* a declared '2024' against an observed 1 Jan 2024 00:00 .. 30 Jun 2024 23:00
C22_Witness ==
    /\ timeOut.called
    /\ timeDeclared = Scalar("2024")
    /\ timeStart = Stamp(2024, 1, 1, 0, 0)
    /\ timeEnd = Stamp(2024, 6, 30, 23, 0)
    /\ timeOut.actual = "2024-01-01T00:00:00|2024-06-30T23:00:00"
    /\ timeOut.mismatch
(***************************************************************************)
(* C23: feature comparison                                                 *)
(***************************************************************************)
\* the features a list names
FeatureSet(features) == {features[i] : i \in 1..Len(features)}

\* C23: the features field is reported as a mismatch iff the declared and
\* the observed feature lists differ as sets; neither the order nor the
\* repetition of a feature causes a mismatch.
C23_FeaturesAsSets ==
    cmpResult.called =>
        (MismatchesOf(cmpResult.result, "features") > 0
            <=> FeatureSet(cmpEntry.prepare.features)
                   # FeatureSet(cmpObserved.prepare.features))

\* C23, without repetition: on lists that name no feature twice the features
\* field is a mismatch iff the lists differ as sets, whatever their order
C23_FeaturesAsSetsNoRepetition ==
    (/\ cmpResult.called
     /\ Len(cmpEntry.prepare.features)
           = Cardinality(FeatureSet(cmpEntry.prepare.features))
     /\ Len(cmpObserved.prepare.features)
           = Cardinality(FeatureSet(cmpObserved.prepare.features)))
    => C23_FeaturesAsSets
(***************************************************************************)
(* C24, C29: catalog snapshot and the inspection routes                    *)
(***************************************************************************)
StartupDone == apiOut.called /\ apiOut.route = "startup"

\* the identifiers a kind had at the load: library keys and local files
NamesAtLoad(local_dir) ==
    {t \in Technologies : \/ <<local_dir, t>> \in apiOut.listedAtLoad
                          \/ <<local_dir, t>> \in apiOut.localAtLoad}

\* what the snapshot is to list for a kind
ClaimedListing(local_dir) ==
    IF local_dir \in apiOut.raisedAtLoad THEN <<>>
    ELSE SortedNames(NamesAtLoad(local_dir))

\* C24: when the library's turbine (solar) listing raises, loading the
\* snapshot does not fail and available_turbines (available_solar_technologies)
\* is empty even if custom definition files exist; the other listing and the
\* cutout discovery are what they are without the failure.
C24_AdvisoryListing ==
    StartupDone =>
        /\ snapshot.loaded
        /\ snapshot.available_turbines = ClaimedListing(WindDir)
        /\ snapshot.available_solar_technologies = ClaimedListing(SolarDir)
        /\ snapshot.available_cutouts = SortedNames(apiOut.ncAtLoad)

\* the turbine listing raised while config/wind held X.yaml: no turbines, the
\* solar technologies and the cutouts are listed
C24_Witness ==
    /\ StartupDone
    /\ apiOut.raisedAtLoad = {WindDir}
    /\ <<WindDir, "X">> \in apiOut.localAtLoad
    /\ <<SolarDir, "X">> \in apiOut.localAtLoad
    /\ apiOut.ncAtLoad = {"a.nc"}
    /\ snapshot.available_turbines = <<>>
    /\ snapshot.available_solar_technologies = <<"X">>
    /\ snapshot.available_cutouts = <<"a.nc">>

InspectDone == apiOut.called /\ apiOut.route \in {"turbines", "solar-technologies"}

\* the snapshot list the route of the last request reads (no snapshot is
\* applied between the request and the state that records it)
ListRead ==
    IF apiOut.route = "turbines" THEN snapshot.available_turbines
    ELSE snapshot.available_solar_technologies

\* the resolver finds a file for the identifier on the disk of the request
WouldResolve ==
    \/ apiOut.at.localAtCall
    \/ (apiOut.at.listedAtCall /\ apiOut.at.onDiskAtCall)

\* C29: an identifier that is not in the applied snapshot gets 404 without
\* the resolver being invoked, also when its definition file is on disk; an
\* identifier in the snapshot is resolved against the disk of the request.
C29_SnapshotGate ==
    InspectDone =>
        IF ~InList(apiOut.ident, ListRead)
        THEN /\ apiOut.response.status = 404
             /\ apiOut.response.resolution = NoCall
        ELSE /\ apiOut.response.resolution.called
             /\ apiOut.response.status = IF WouldResolve THEN 200 ELSE 404
             /\ apiOut.at.localAtCall => apiOut.response.resolution.kind = "custom"
             /\ (~apiOut.at.localAtCall /\ WouldResolve)
                   => apiOut.response.resolution.kind = "atlite"

\* config/wind/X.yaml was created after the snapshot was loaded: 404, the
\* resolver not asked
C29_Witness ==
    /\ InspectDone
    /\ snapshot.loaded
    /\ apiOut.route = "turbines" /\ apiOut.ident = "X"
    /\ ~InList("X", snapshot.available_turbines)
    /\ apiOut.at.localAtCall
    /\ apiOut.response.status = 404
    /\ apiOut.response.resolution = NoCall
(***************************************************************************)
(* C27, C28, C30: fetch_cutouts                                            *)
(***************************************************************************)
\* the item position k contributes to fetched, and to skipped
FetchedItemAt(k) ==
    IF IsRemoteTarget(EntryAt(k).target) THEN RemoteFetchedItem(EntryAt(k))
    ELSE LocalFetchedItem(EntryAt(k))
SkippedItemAt(k) == ResolveTargetPath(EntryAt(k).target, EntryAt(k).filename)

\* the items of the positions 1..n that are in `chosen`, in configuration order
RECURSIVE FetchedOf(_, _)
FetchedOf(n, chosen) ==
    IF n = 0 THEN <<>>
    ELSE FetchedOf(n - 1, chosen)
         \o (IF n \in chosen THEN <<FetchedItemAt(n)>> ELSE <<>>)
RECURSIVE SkippedOf(_, _)
SkippedOf(n, chosen) ==
    IF n = 0 THEN <<>>
    ELSE SkippedOf(n - 1, chosen)
         \o (IF n \in chosen THEN <<SkippedItemAt(n)>> ELSE <<>>)

\* C27: whenever fetch_cutouts returns, every selected entry contributed
\* exactly one item to exactly one of fetched and skipped, both lists follow
\* configuration order, the counts are the lengths of the lists and add up to
\* the number of selected entries.
C27_ResultPartition ==
    pc = "done" =>
        /\ response.fetched_count = Len(response.fetched)
        /\ response.skipped_count = Len(response.skipped)
        /\ response.fetched_count + response.skipped_count = Len(entries)
        /\ \E chosen \in SUBSET (1..Len(entries)) :
              /\ response.fetched = FetchedOf(Len(entries), chosen)
              /\ response.skipped =
                    SkippedOf(Len(entries), (1..Len(entries)) \ chosen)

\* a returned run over two entries, the first fetched and the second skipped
C27_Witness ==
    /\ pc = "done"
    /\ Len(entries) = 2
    /\ response.fetched = <<FetchedItemAt(1)>>
    /\ response.skipped = <<SkippedItemAt(2)>>
    /\ FetchedItemAt(1) # SkippedItemAt(2)

\* position k is a remote entry whose probe answered "absent"
RemoteProbedAbsent(k) ==
    /\ k \in 1..Len(entries)
    /\ IsRemoteTarget(EntryAt(k).target)
    /\ Probed(k) /\ ~ProbeOf(k)

\* the first call `ev` for position k comes after a call `before_ev` for it
CalledAfter(ev, before_ev, k) ==
    \A j \in DOMAIN log :
        (log[j].ev = ev /\ log[j].k = k) =>
            \E u \in 1..(j - 1) : log[u].ev = before_ev /\ log[u].k = k

\* C28: a failing remote probe, whatever made the remote test command exit
\* non-zero, reads as "file absent" and raises nothing; with force_refresh
\* false such an entry is never skipped: it is prepared, then the remote
\* directory is created (where an unreachable host shows), then it is copied.
\* Only a file that is on the host is ever reported present.
C28_ProbeFailureIsAbsent ==
    /\ raised.at # "probe"
    /\ \A k \in 1..Len(entries) :
          (IsRemoteTarget(EntryAt(k).target) /\ ProbeOf(k)) =>
              remote[RemoteDestination(EntryAt(k).target, EntryAt(k).filename)].present
    /\ ~force_refresh =>
          \A k \in 1..Len(entries) :
              RemoteProbedAbsent(k) =>
                  /\ CalledAfter("ssh_mkdir", "prepare", k)
                  /\ CalledAfter("scp", "ssh_mkdir", k)
                  /\ (raised # NoError /\ raised.k = k) =>
                        raised.at \in {"build_cutout_kwargs", "prepare",
                                       "ssh_mkdir", "scp"}
                  /\ Completed(k) =>
                        /\ Calls("prepare", k) = 1
                        /\ Calls("ssh_mkdir", k) = 1
                        /\ Calls("scp", k) = 1
                        /\ Len(skipped) = Cardinality({l \in 1..Len(entries) :
                                                          Completed(l) /\ ProbeOf(l)})

\* the file is on the remote host, the probe could not reach it and answered
\* "absent": the entry was prepared and the directory creation then failed
C28_Witness ==
    /\ ~force_refresh
    /\ pc = "raised" /\ raised.at = "ssh_mkdir" /\ raised.k = 1
    /\ RemoteProbedAbsent(1)
    /\ remote[RemoteDestination(EntryAt(1).target, EntryAt(1).filename)].present
    /\ Calls("prepare", 1) = 1
    /\ skipped = <<>>

\* C30: every validation entry reported as "match" has observed x and y
\* bounds within 1e-6 of the declared ones; an entry whose declared x or y is
\* not a list of exactly two numbers is never reported as "match".
C30_MatchMeansBoundsAgree ==
    \A k \in 1..Len(validation_report.entries) :
        validation_report.entries[k].status = "match" =>
            /\ AxisAgrees(EntryAt(k).cutout.x,
                          validation_report.entries[k].observed[1].x)
            /\ AxisAgrees(EntryAt(k).cutout.y,
                          validation_report.entries[k].observed[1].y)

\* C30, on the entries whose declared x and y are lists of two numbers
C30_MatchMeansBoundsAgreeOnWellFormed ==
    \A k \in 1..Len(validation_report.entries) :
        (/\ validation_report.entries[k].status = "match"
         /\ WellFormedAxis(EntryAt(k).cutout.x)
         /\ WellFormedAxis(EntryAt(k).cutout.y)) =>
            /\ AxisAgrees(EntryAt(k).cutout.x,
                          validation_report.entries[k].observed[1].x)
            /\ AxisAgrees(EntryAt(k).cutout.y,
                          validation_report.entries[k].observed[1].y)
(***************************************************************************)
(* C26: idempotence of fetch_cutouts                                       *)
(***************************************************************************)
\* every remote probe of the second run answered what the host held
ProbesTruthful ==
    \A j \in DOMAIN log :
        (log[j].ev = "probe" /\ IsRemoteTarget(EntryAt(log[j].k).target)) =>
            log[j].ok = before.remote[log[j].arg].present

\* C26: after a run without force_refresh has returned, a second run with the
\* same configuration and without force_refresh, its remote probes answering
\* truthfully, invokes no preparation and no copy, reports fetched empty and
\* every selected entry in skipped, and leaves the files as they were.
C26_SecondRunSkipsAll ==
    (run = 2 /\ ProbesTruthful) =>
        /\ \A j \in DOMAIN log :
              log[j].ev \notin {"prepare", "ssh_mkdir", "scp", "unlink"}
        /\ fs = before.fs /\ remote = before.remote
        /\ raised = NoError
        /\ fetched = <<>>
        /\ pc = "done" =>
              /\ response.fetched = <<>> /\ response.fetched_count = 0
              /\ response.skipped = [k \in 1..Len(entries) |-> SkippedItemAt(k)]
              /\ response.skipped_count = Len(entries)

\* the first run wrote a local file and uploaded a remote one; the second run
\* has returned with both entries skipped
C26_Witness ==
    /\ run = 2 /\ pc = "done" /\ ProbesTruthful
    /\ Len(entries) = 2
    /\ \E p \in LocalPaths : before.fs[p].writer > 0
    /\ \E d \in RemoteDests : before.remote[d].writer > 0
    /\ Len(response.skipped) = 2

====
